---- MODULE Spec2Model ----
(***************************************************************************)
(* Model of the Dispatch & Retry layer (tornado/engine/src/executor/       *)
(* retry.rs) and of the MatcherActor (tornado/engine/src/actor/matcher.rs) *)
(* of Tornado.                                                             *)
(*                                                                         *)
(* The specifications share the variables of the module:                   *)
(*   SpecPolicy   the pure policy functions applied to drawn inputs        *)
(*   SpecRetry    RetryActor: one retry task per received ActionMessage    *)
(*   SpecMatcher  MatcherActor: events, reconfiguration, dispatcher mailbox*)
(*   SpecRetryTasks, SpecMatcherEvents  several messages at one actor      *)
(*   SpecValidator  MatcherConfigValidator (engine/matcher/src/validator)  *)
(*   SpecValidatorTree  the validator on a tree of Filters and Rulesets    *)
(*   SpecEventBus   the routing of actions to the executors (main.rs)      *)
(*   SpecForEach    ForEachExecutor::execute (executor/foreach/src/lib.rs) *)
(*   SpecContain    the contain operator (matcher/operator/contain.rs)     *)
(*   SpecProcess    one event through the matcher tree and the dispatcher  *)
(*   SpecArchive    ArchiveExecutor::execute (executor/archive/src/lib.rs) *)
(*   SpecAuth       AuthContextV2 (engine_api/src/auth/auth_v2.rs)         *)
(*   SpecMatcherConfig  reconfigurations and GetCurrentConfigMessage       *)
(*   SpecMatcherFrame   every message of the MatcherActor                   *)
(***************************************************************************)
EXTENDS Integers, Sequences, FiniteSets, TLC

(***************************************************************************)
(* Bounds                                                                  *)
(***************************************************************************)
\* Largest value of the u32 type.  The program has 4294967295; the model
\* keeps the wrap-around/abort semantics at a width TLC can enumerate.
U32_MAX == 4
\* MaxRetries{retries} is drawn from 0..MaxRetriesCfg and U32_MAX.
MaxRetriesCfg == 2
\* Number of ActionMessages the RetryActor receives.
MaxTasks == 1
\* Each retry task performs at most this many sends (caps RetryPolicy::Infinite).
MaxSends == U32_MAX + 2
\* Number of ActionMessages in flight at once in SpecRetryTasks.
MaxConcurrentTasks == 2
\* Longest list of rules of a Ruleset given to the validator.
MaxRules == 3
\* Number of distinct valid rule names.
MaxRuleNames == 2
\* Longest nested Ruleset, and deepest nesting of Filters, of the config
\* tree given to the validator.
MaxNestedRules == 1
MaxDepth == 2
\* Versions of the configuration the config store can hold.
MaxConfigVersion == 2
\* Number of ReconfigureMessages the MatcherActor receives.
MaxReconfigs == 2
\* Number of EventMessages the MatcherActor receives.
MaxEvents == 2
\* Capacity of the dispatcher's mailbox in SpecMatcher.
DispatcherCapacity == 1
\* Largest capacity of the dispatcher's mailbox drawn in SpecMatcherEvents.
MaxDispatcherCapacity == 2
\* Number of actions published on the event bus in SpecEventBus.
MaxPublished == 4
\* Longest `target` and `actions` arrays given to the ForEachExecutor.
MaxItems == 2
MaxEntries == 2
\* Longest text an accessor of the contain operator resolves to.
MaxTextLen == 3
\* Longest Ruleset, and deepest nesting of Filters, of the matcher tree an
\* event is processed against.
MaxMatcherRules == 3
MaxMatcherDepth == 2
\* Longest path, in segments, a payload value of an archive action holds.
MaxValueSegments == 3

VARIABLES
    \* ---- build profile -------------------------------------------------
    overflow_checks,   \* TRUE: integer overflow aborts (debug); FALSE: wraps
    \* ---- SpecPolicy, SpecValidator ------------------------------------
    call,              \* the last call of a pure function and its result
    \* ---- SpecRetry -----------------------------------------------------
    retry_strategy,    \* RetryActor.retry_strategy
    tasks,             \* the tasks spawned by RetryActor::handle
    \* ---- SpecMatcher ---------------------------------------------------
    store,             \* content of the config store (external collaborator)
    matcher_config,    \* MatcherActor.matcher_config
    matcher,           \* MatcherActor.matcher
    reconfigs,         \* the futures spawned by Handler<ReconfigureMessage>
    dispatcher_mailbox,\* bounded mailbox behind dispatcher_addr
    dispatcher_capacity,\* capacity of that mailbox, set when the dispatcher starts
    events,            \* per event: what became of it
    \* ---- SpecEventBus, SpecForEach -------------------------------------
    bus                \* the event bus: what was published, where it went

vars == <<overflow_checks, bus, call, retry_strategy, tasks, store, matcher_config,
          matcher, reconfigs, dispatcher_mailbox, dispatcher_capacity, events>>

retryVars == <<retry_strategy, tasks>>
matcherVars ==
    <<store, matcher_config, matcher, reconfigs, dispatcher_mailbox,
      dispatcher_capacity, events>>

(***************************************************************************)
(* u32 arithmetic                                                          *)
(***************************************************************************)
U32 == 0..U32_MAX

\* a + b on u32: the wrapped value and whether the addition overflowed.
U32Add(a, b) ==
    [overflow |-> a + b > U32_MAX, value |-> (a + b) % (U32_MAX + 1)]

(***************************************************************************)
(* RetryPolicy / BackoffPolicy / RetryStrategy                             *)
(***************************************************************************)
RetryPolicyNone == [type |-> "None", retries |-> 0]
RetryPolicyInfinite == [type |-> "Infinite", retries |-> 0]
RetryPolicyMaxRetries(n) == [type |-> "MaxRetries", retries |-> n]

RetryPolicies ==
    {RetryPolicyNone, RetryPolicyInfinite}
        \cup {RetryPolicyMaxRetries(n) : n \in (0..MaxRetriesCfg) \cup {U32_MAX}}

NoDuration == [some |-> FALSE, ms |-> 0]
SomeDuration(ms) == [some |-> TRUE, ms |-> ms]

BackoffPolicyNone == [type |-> "None", ms |-> 0, vec |-> <<>>]
BackoffPolicyFixed(ms) == [type |-> "Fixed", ms |-> ms, vec |-> <<>>]
BackoffPolicyVariable(vec) == [type |-> "Variable", ms |-> 0, vec |-> vec]

BackoffPolicies ==
    {BackoffPolicyNone, BackoffPolicyFixed(0), BackoffPolicyFixed(10),
     BackoffPolicyVariable(<<>>), BackoffPolicyVariable(<<10, 0>>),
     BackoffPolicyVariable(<<0, 30>>)}

\* Result of a computation that may abort on overflow.
Panic == [panic |-> TRUE, value |-> FALSE]
Value(v) == [panic |-> FALSE, value |-> v]

\* A RetryPolicy::should_retry in which the None policy grants one retry.
RetryPolicy_should_retry_NoneRetries(self, failed_attempts, oc) ==
    IF failed_attempts = 0
    THEN Value(TRUE)
    ELSE CASE self.type = "None" -> Value(failed_attempts < 2)
           [] self.type = "Infinite" -> Value(TRUE)
           [] self.type = "MaxRetries" ->
                LET sum == U32Add(self.retries, 1)
                IN  IF sum.overflow /\ oc
                    THEN Panic
                    ELSE Value(sum.value > failed_attempts)

\* RetryPolicy::should_retry, evaluated in a build with overflow checks (oc)
\* or without: `*attempts + 1` aborts or wraps when attempts = u32::MAX.
RetryPolicy_should_retry(self, failed_attempts, oc) ==
    IF failed_attempts = 0
    THEN Value(TRUE)
    ELSE CASE self.type = "None" -> Value(FALSE)
           [] self.type = "Infinite" -> Value(TRUE)
           [] self.type = "MaxRetries" ->
                LET sum == U32Add(self.retries, 1)
                IN  IF sum.overflow /\ oc
                    THEN Panic
                    ELSE Value(sum.value > failed_attempts)

\* A BackoffPolicy::should_wait without the `failed_attempts == 0` branch.
BackoffPolicy_should_wait_BeforeFirstAttempt(self, failed_attempts) ==
    CASE self.type = "None" -> NoDuration
      [] self.type = "Fixed" ->
           IF self.ms > 0 THEN SomeDuration(self.ms) ELSE NoDuration
      [] self.type = "Variable" ->
           LET len == Len(self.vec)
           IN  IF len = 0
               THEN NoDuration
               ELSE LET wait_ms == IF failed_attempts >= 1 /\ len > failed_attempts - 1
                                   THEN self.vec[failed_attempts]
                                   ELSE self.vec[len]
                    IN  IF wait_ms > 0 THEN SomeDuration(wait_ms) ELSE NoDuration

\* A BackoffPolicy::should_wait whose Fixed wait grows with failed_attempts.
BackoffPolicy_should_wait_FixedLinear(self, failed_attempts) ==
    IF failed_attempts = 0
    THEN NoDuration
    ELSE CASE self.type = "None" -> NoDuration
           [] self.type = "Fixed" ->
                IF self.ms > 0 THEN SomeDuration(self.ms * failed_attempts)
                               ELSE NoDuration
           [] self.type = "Variable" ->
                LET index == failed_attempts - 1
                    len == Len(self.vec)
                IN  IF len = 0
                    THEN NoDuration
                    ELSE LET wait_ms == IF len > index THEN self.vec[index + 1]
                                                       ELSE self.vec[len]
                         IN  IF wait_ms > 0 THEN SomeDuration(wait_ms) ELSE NoDuration

\* A BackoffPolicy::should_wait that indexes the vector with failed_attempts.
BackoffPolicy_should_wait_IndexOffByOne(self, failed_attempts) ==
    IF failed_attempts = 0
    THEN NoDuration
    ELSE CASE self.type = "None" -> NoDuration
           [] self.type = "Fixed" ->
                IF self.ms > 0 THEN SomeDuration(self.ms) ELSE NoDuration
           [] self.type = "Variable" ->
                LET index == failed_attempts
                    len == Len(self.vec)
                IN  IF len = 0
                    THEN NoDuration
                    ELSE LET wait_ms == IF len > index THEN self.vec[index + 1]
                                                       ELSE self.vec[len]
                         IN  IF wait_ms > 0 THEN SomeDuration(wait_ms) ELSE NoDuration

\* BackoffPolicy::should_wait
BackoffPolicy_should_wait(self, failed_attempts) ==
    IF failed_attempts = 0
    THEN NoDuration
    ELSE CASE self.type = "None" -> NoDuration
           [] self.type = "Fixed" ->
                IF self.ms > 0 THEN SomeDuration(self.ms) ELSE NoDuration
           [] self.type = "Variable" ->
                LET index == failed_attempts - 1
                    len == Len(self.vec)
                IN  IF len = 0
                    THEN NoDuration
                    ELSE LET wait_ms == IF len > index THEN self.vec[index + 1]
                                                       ELSE self.vec[len]
                         IN  IF wait_ms > 0 THEN SomeDuration(wait_ms) ELSE NoDuration

RetryStrategies ==
    [retry_policy : RetryPolicies, backoff_policy : BackoffPolicies]

\* RetryStrategy::should_retry: the pair, or an abort of the first component.
RetryStrategy_should_retry(self, failed_attempts, oc) ==
    LET r == RetryPolicy_should_retry(self.retry_policy, failed_attempts, oc)
    IN  [panic |-> r.panic,
         retry |-> r.value,
         wait |-> BackoffPolicy_should_wait(self.backoff_policy, failed_attempts)]

(***************************************************************************)
(* SpecPolicy: RetryStrategy::should_retry applied to drawn inputs         *)
(***************************************************************************)
PolicyCalls ==
    [strategy : RetryStrategies, failed_attempts : U32, applied : {FALSE},
     panic : {FALSE}, retry : {FALSE}, wait : {NoDuration}]

NoCall ==
    [strategy |-> [retry_policy |-> RetryPolicyNone, backoff_policy |-> BackoffPolicyNone],
     failed_attempts |-> 0, applied |-> FALSE, panic |-> FALSE, retry |-> FALSE,
     wait |-> NoDuration]

\* One call of RetryStrategy::should_retry on the drawn inputs.
ApplyShouldRetry ==
    /\ ~call.applied
    /\ LET r == RetryStrategy_should_retry(call.strategy, call.failed_attempts,
                                           overflow_checks)
       IN  call' = [call EXCEPT !.applied = TRUE, !.panic = r.panic,
                                !.retry = (~r.panic /\ r.retry),
                                !.wait = IF r.panic THEN NoDuration ELSE r.wait]
    /\ UNCHANGED <<overflow_checks, bus, retryVars, matcherVars>>

\* The next inputs are drawn.
DrawInputs ==
    /\ call.applied
    /\ call' \in PolicyCalls
    /\ UNCHANGED <<overflow_checks, bus, retryVars, matcherVars>>

(***************************************************************************)
(* SpecRetry: RetryActor                                                   *)
(***************************************************************************)
Tasks == 1..MaxTasks

\* failed_attempts carried by the ActionMessages the RetryActor receives.
InitialFailedAttempts == {0, 1, U32_MAX}

\* Answers to executor_addr.send(msg).await.  can_retry is the flag carried by
\* ExecutorError::ActionExecutionError.
ResponseOk == [kind |-> "Ok", can_retry |-> TRUE]
ResponseErr(can_retry) == [kind |-> "Err", can_retry |-> can_retry]
ResponseMailboxError == [kind |-> "MailboxError", can_retry |-> TRUE]
ExecutorResponses == {ResponseOk, ResponseErr(TRUE), ResponseErr(FALSE)}

IdleTask ==
    [pc |-> "idle", f0 |-> 0, failed_attempts |-> 0, delay |-> 0,
     sends |-> 0, oks |-> 0, errs |-> 0, mailbox_errors |-> 0,
     got_fatal |-> FALSE, sent_after_ok |-> FALSE, sent_after_fatal |-> FALSE,
     waits |-> <<>>]

\* Body of the retry loop after `executor_addr.send(msg.clone()).await`, in
\* which an Ok answer is retried as well.
OnSendResult_RetryOnOk(task, result, strategy, oc) ==
    IF result.kind = "MailboxError"
    THEN [task EXCEPT !.pc = "done"]
    ELSE LET sum == U32Add(task.failed_attempts, 1)
         IN  IF sum.overflow /\ oc
             THEN [task EXCEPT !.pc = "panicked"]
             ELSE LET sr == RetryStrategy_should_retry(strategy, sum.value, oc)
                  IN  IF sr.panic
                      THEN [task EXCEPT !.failed_attempts = sum.value, !.pc = "panicked"]
                      ELSE IF sr.retry
                      THEN IF sr.wait.some
                           THEN [task EXCEPT !.failed_attempts = sum.value,
                                             !.pc = "delay", !.delay = sr.wait.ms,
                                             !.waits = Append(@, sr.wait.ms)]
                           ELSE [task EXCEPT !.failed_attempts = sum.value, !.pc = "send"]
                      ELSE [task EXCEPT !.failed_attempts = sum.value, !.pc = "done"]

\* Body of the retry loop after `executor_addr.send(msg.clone()).await`:
\* the task's state at its next suspension point or at its end.
OnSendResult(task, result, strategy, oc) ==
    CASE result.kind = "MailboxError" -> [task EXCEPT !.pc = "done"]
      [] result.kind = "Ok" -> [task EXCEPT !.pc = "done"]
      [] result.kind = "Err" ->
            LET sum == U32Add(task.failed_attempts, 1)
            IN  IF sum.overflow /\ oc
                THEN [task EXCEPT !.pc = "panicked"]
                ELSE LET sr == RetryStrategy_should_retry(strategy, sum.value, oc)
                     IN  IF sr.panic
                         THEN [task EXCEPT !.failed_attempts = sum.value,
                                           !.pc = "panicked"]
                         ELSE IF sr.retry
                         THEN IF sr.wait.some
                              THEN [task EXCEPT !.failed_attempts = sum.value,
                                                !.pc = "delay", !.delay = sr.wait.ms,
                                                !.waits = Append(@, sr.wait.ms)]
                              ELSE [task EXCEPT !.failed_attempts = sum.value,
                                                !.pc = "send"]
                         ELSE [task EXCEPT !.failed_attempts = sum.value, !.pc = "done"]

\* A Handler<ActionMessage>::handle that takes the next message only when the
\* retry loops of the earlier messages have ended.
RetryActor_handle_AfterEarlierEnded(t, f0) ==
    /\ tasks[t].pc = "idle"
    /\ \A u \in DOMAIN tasks : u < t => tasks[u].pc \in {"done", "panicked"}
    /\ tasks' = [tasks EXCEPT ![t] = [IdleTask EXCEPT !.pc = "send", !.f0 = f0,
                                                      !.failed_attempts = f0]]
    /\ UNCHANGED <<overflow_checks, bus, call, retry_strategy, matcherVars>>

\* Handler<ActionMessage>::handle: spawns the retry task of the message.
RetryActor_handle(t, f0) ==
    /\ tasks[t].pc = "idle"
    /\ \A u \in DOMAIN tasks : u < t => tasks[u].pc # "idle"
    /\ tasks' = [tasks EXCEPT ![t] = [IdleTask EXCEPT !.pc = "send", !.f0 = f0,
                                                      !.failed_attempts = f0]]
    /\ UNCHANGED <<overflow_checks, bus, call, retry_strategy, matcherVars>>

\* Loop head with should_retry = true: executor_addr.send(msg.clone()).
TaskSend(t) ==
    /\ tasks[t].pc = "send"
    /\ tasks[t].sends < MaxSends
    /\ tasks' = [tasks EXCEPT ![t] =
           [@ EXCEPT !.pc = "await", !.sends = @ + 1,
                     !.sent_after_ok = (@ \/ tasks[t].oks > 0),
                     !.sent_after_fatal = (@ \/ tasks[t].got_fatal)]]
    /\ UNCHANGED <<overflow_checks, bus, call, retry_strategy, matcherVars>>

\* The executor executes the action and answers; the task resumes.
ExecutorAnswers(t, response) ==
    /\ tasks[t].pc = "await"
    /\ LET counted ==
               [tasks[t] EXCEPT
                   !.oks = IF response.kind = "Ok" THEN @ + 1 ELSE @,
                   !.errs = IF response.kind = "Err" THEN @ + 1 ELSE @,
                   !.got_fatal = (@ \/ (response.kind = "Err" /\ ~response.can_retry))]
       IN  tasks' = [tasks EXCEPT ![t] =
               OnSendResult(counted, response, retry_strategy, overflow_checks)]
    /\ UNCHANGED <<overflow_checks, bus, call, retry_strategy, matcherVars>>

\* The send itself fails (executor mailbox closed, request cancelled).
MailboxError(t) ==
    /\ tasks[t].pc = "await"
    /\ tasks' = [tasks EXCEPT ![t] =
           OnSendResult([tasks[t] EXCEPT !.mailbox_errors = @ + 1],
                        ResponseMailboxError, retry_strategy, overflow_checks)]
    /\ UNCHANGED <<overflow_checks, bus, call, retry_strategy, matcherVars>>

\* actix::clock::delay_for(delay_for) elapses.
DelayElapsed(t) ==
    /\ tasks[t].pc = "delay"
    /\ tasks' = [tasks EXCEPT ![t] = [@ EXCEPT !.pc = "send", !.delay = 0]]
    /\ UNCHANGED <<overflow_checks, bus, call, retry_strategy, matcherVars>>

(***************************************************************************)
(* SpecMatcher: MatcherActor                                               *)
(***************************************************************************)
\* A MatcherConfig: its content (version) and whether Matcher::build accepts it.
\* Version 0 is a config that can be read but does not compile.
Configs ==
    {[version |-> v, valid |-> TRUE] : v \in 1..MaxConfigVersion}
        \cup {[version |-> 0, valid |-> FALSE]}

NoConfig == [version |-> -1, valid |-> FALSE]
NoMatcher == [compiled_from |-> NoConfig]

\* Matcher::build(&config)
MatcherBuild(config) ==
    IF config.valid
    THEN [ok |-> TRUE, matcher |-> [compiled_from |-> config]]
    ELSE [ok |-> FALSE, matcher |-> NoMatcher]

\* matcher.process(event, include_metadata): the ProcessedEvent of the event
\* under the tree.
MatcherProcess(m, event) == [event |-> event, matcher |-> m]

Events == 1..MaxEvents
Reconfigs == 1..MaxReconfigs

NoProcessedEvent == [event |-> 0, matcher |-> NoMatcher]

\* A message carrying an event, not yet received.  `message` is its type once
\* handled, `returned` the ProcessedEvent of the reply, `try_sends` and `sent`
\* the calls of dispatcher_addr.try_send made for it.
NewEvent ==
    [status |-> "pending", reply |-> "none", processed |-> NoProcessedEvent,
     config_at |-> NoConfig, mailbox_full_at |-> FALSE, reconfiguring_at |-> FALSE,
     delivered |-> FALSE, message |-> "none", process_type |-> "none",
     filter |-> [node |-> -1],
     returned |-> NoProcessedEvent, try_sends |-> 0, sent |-> NoProcessedEvent]

\* ProcessType
ProcessTypes == {"Full", "SkipActions"}

\* The nodes of a config, by name: the root (0) and one node that only this
\* version of the config has.
ConfigNodes(config) == {0, config.version}

\* A config_filter selecting one node by name; MaxConfigVersion + 1 names a
\* node no config has.
NodeFilters == [node : 0..(MaxConfigVersion + 1)]

\* The message carries no config_filter.
NoFilter == [node |-> -1]

\* matcher_config_filter(&config, &filter): None when the filter selects no
\* existing node.  The restriction of the config to the selected nodes is not
\* represented.
matcher_config_filter(config, filter) ==
    IF filter.node \in ConfigNodes(config)
    THEN [some |-> TRUE, config |-> config]
    ELSE [some |-> FALSE, config |-> NoConfig]

NoFields == [matcher |-> NoMatcher, matcher_config |-> NoConfig]

\* A ReconfigureMessage not yet received.  `before` holds the actor's fields
\* at the time the message is handled, until its future ends.
IdleReconfig ==
    [pc |-> "idle", read_ok |-> FALSE, read |-> NoConfig, before |-> NoFields,
     reply_ok |-> FALSE, reply |-> NoConfig]

\* Recipient::try_send that enqueues even when the mailbox is full.
TrySend_Unbounded(mailbox, msg) ==
    [ok |-> TRUE, mailbox |-> Append(mailbox, msg)]

\* A try_send that puts the message at the head of the mailbox.
TrySend_AtHead(mailbox, msg) ==
    IF Len(mailbox) < dispatcher_capacity
    THEN [ok |-> TRUE, mailbox |-> <<msg>> \o mailbox]
    ELSE [ok |-> FALSE, mailbox |-> mailbox]

\* Recipient::try_send on the dispatcher's bounded mailbox.
TrySend(mailbox, msg) ==
    IF Len(mailbox) < dispatcher_capacity
    THEN [ok |-> TRUE, mailbox |-> Append(mailbox, msg)]
    ELSE [ok |-> FALSE, mailbox |-> mailbox]

InProgress(r) == reconfigs[r].pc \in {"reading", "read"}

\* Handler<EventMessage>::handle
EventMessage_handle(e) ==
    /\ events[e].status = "pending"
    /\ \A d \in DOMAIN events : d < e => events[d].status # "pending"
    /\ LET processed_event == MatcherProcess(matcher, e)
           sent == TrySend(dispatcher_mailbox, processed_event)
       IN  /\ dispatcher_mailbox' = sent.mailbox
           /\ events' = [events EXCEPT ![e] =
                  [@ EXCEPT !.status = IF sent.ok THEN "enqueued" ELSE "dropped",
                            !.reply = "Ok",
                            !.message = "EventMessage",
                            !.try_sends = 1,
                            !.sent = processed_event,
                            !.processed = processed_event,
                            !.config_at = matcher_config,
                            !.mailbox_full_at = (Len(dispatcher_mailbox) >= dispatcher_capacity),
                            !.reconfiguring_at = (\E r \in Reconfigs : InProgress(r))]]
    /\ UNCHANGED <<overflow_checks, bus, call, retryVars, dispatcher_capacity, store, matcher_config, matcher,
                   reconfigs>>

\* A process_event_with_reply that sends to the dispatcher whatever the
\* process type.
process_event_with_reply_AlwaysSends(m, event, process_type, mailbox) ==
    LET processed_event == MatcherProcess(m, event)
        sent == TrySend(mailbox, processed_event)
    IN  [returned |-> processed_event, mailbox |-> sent.mailbox, try_sends |-> 1,
         sent |-> processed_event, send_ok |-> sent.ok]

\* MatcherActor::process_event_with_reply: the returned ProcessedEvent, the
\* dispatcher's mailbox afterwards and the try_send made.
process_event_with_reply(m, event, process_type, mailbox) ==
    LET processed_event == MatcherProcess(m, event)
    IN  IF process_type = "Full"
        THEN LET sent == TrySend(mailbox, processed_event)
             IN  [returned |-> processed_event, mailbox |-> sent.mailbox,
                  try_sends |-> 1, sent |-> processed_event, send_ok |-> sent.ok]
        ELSE [returned |-> processed_event, mailbox |-> mailbox,
              try_sends |-> 0, sent |-> NoProcessedEvent, send_ok |-> FALSE]

\* The reply of a handler that returns an error before processing the event.
ReplyError(mailbox) ==
    [ok |-> FALSE, returned |-> NoProcessedEvent, mailbox |-> mailbox,
     try_sends |-> 0, sent |-> NoProcessedEvent, send_ok |-> FALSE]

\* The reply of a handler that processed the event with the matcher m.
ReplyProcessed(m, event, process_type, mailbox) ==
    LET out == process_event_with_reply(m, event, process_type, mailbox)
    IN  [ok |-> TRUE, returned |-> out.returned, mailbox |-> out.mailbox,
         try_sends |-> out.try_sends, sent |-> out.sent, send_ok |-> out.send_ok]

\* A Handler<EventMessageWithReply> that processes the event with the whole
\* config when the filter selects no node.
EventMessageWithReply_reply_UnfilteredOnNoMatch(config, event, filter, process_type, mailbox) ==
    LET filtered_config == matcher_config_filter(config, filter)
        built == MatcherBuild(IF filtered_config.some THEN filtered_config.config
                                                      ELSE config)
    IN  IF ~built.ok
        THEN ReplyError(mailbox)
        ELSE ReplyProcessed(built.matcher, event, process_type, mailbox)

\* Body of Handler<EventMessageWithReply>::handle: filter the held config,
\* build a matcher from it, process the event with that matcher.
EventMessageWithReply_reply(config, event, filter, process_type, mailbox) ==
    LET filtered_config == matcher_config_filter(config, filter)
    IN  IF ~filtered_config.some
        THEN ReplyError(mailbox)
        ELSE LET built == MatcherBuild(filtered_config.config)
             IN  IF ~built.ok
                 THEN ReplyError(mailbox)
                 ELSE ReplyProcessed(built.matcher, event, process_type, mailbox)

\* Body of Handler<EventMessageAndConfigWithReply>::handle: build a matcher
\* from the config of the message, process the event with it.
EventMessageAndConfigWithReply_reply(config, event, process_type, mailbox) ==
    LET built == MatcherBuild(config)
    IN  IF ~built.ok
        THEN ReplyError(mailbox)
        ELSE ReplyProcessed(built.matcher, event, process_type, mailbox)

\* What became of a message with reply, from the reply of its handler.
Replied(event_record, message, filter, process_type, config, out) ==
    [event_record EXCEPT
        !.status = IF ~out.ok THEN "rejected"
                   ELSE IF out.try_sends = 0 THEN "discarded"
                   ELSE IF out.send_ok THEN "enqueued" ELSE "dropped",
        !.reply = IF out.ok THEN "Ok" ELSE "Err",
        !.message = message,
        !.process_type = process_type,
        !.filter = filter,
        !.processed = out.returned,
        !.returned = out.returned,
        !.try_sends = out.try_sends,
        !.sent = out.sent,
        !.config_at = config,
        !.mailbox_full_at = (Len(dispatcher_mailbox) >= dispatcher_capacity),
        !.reconfiguring_at = (\E r \in Reconfigs : InProgress(r))]

\* Handler<EventMessageWithReply>::handle
EventMessageWithReply_handle(e, filter, process_type) ==
    /\ events[e].status = "pending"
    /\ \A d \in DOMAIN events : d < e => events[d].status # "pending"
    /\ LET out == EventMessageWithReply_reply(matcher_config, e, filter, process_type,
                                              dispatcher_mailbox)
       IN  /\ dispatcher_mailbox' = out.mailbox
           /\ events' = [events EXCEPT ![e] =
                  Replied(@, "EventMessageWithReply", filter, process_type,
                          matcher_config, out)]
    /\ UNCHANGED <<overflow_checks, bus, call, retryVars, dispatcher_capacity, store,
                   matcher_config, matcher, reconfigs>>

\* An EventMessageAndConfigWithReply handler that keeps the matcher it built
\* from the config of the message.
EventMessageAndConfigWithReply_handle_KeepsConfig(e, config, process_type) ==
    /\ events[e].status = "pending"
    /\ \A d \in DOMAIN events : d < e => events[d].status # "pending"
    /\ LET out == EventMessageAndConfigWithReply_reply(config, e, process_type,
                                                       dispatcher_mailbox)
       IN  /\ dispatcher_mailbox' = out.mailbox
           /\ events' = [events EXCEPT ![e] =
                  Replied(@, "EventMessageAndConfigWithReply", NoFilter, process_type,
                          config, out)]
           /\ matcher_config' = IF out.ok THEN config ELSE matcher_config
           /\ matcher' = IF out.ok THEN MatcherBuild(config).matcher ELSE matcher
    /\ UNCHANGED <<overflow_checks, bus, call, retryVars, dispatcher_capacity, store,
                   reconfigs>>

\* Handler<EventMessageAndConfigWithReply>::handle
EventMessageAndConfigWithReply_handle(e, config, process_type) ==
    /\ events[e].status = "pending"
    /\ \A d \in DOMAIN events : d < e => events[d].status # "pending"
    /\ LET out == EventMessageAndConfigWithReply_reply(config, e, process_type,
                                                       dispatcher_mailbox)
       IN  /\ dispatcher_mailbox' = out.mailbox
           /\ events' = [events EXCEPT ![e] =
                  Replied(@, "EventMessageAndConfigWithReply", NoFilter, process_type,
                          config, out)]
    /\ UNCHANGED <<overflow_checks, bus, call, retryVars, dispatcher_capacity, store,
                   matcher_config, matcher, reconfigs>>

\* The dispatcher takes the next ProcessedEventMessage from its mailbox.
DispatcherReceive ==
    /\ dispatcher_mailbox # <<>>
    /\ events' = [events EXCEPT ![Head(dispatcher_mailbox).event] =
                      [@ EXCEPT !.delivered = TRUE]]
    /\ dispatcher_mailbox' = Tail(dispatcher_mailbox)
    /\ UNCHANGED <<overflow_checks, bus, call, retryVars, dispatcher_capacity, store, matcher_config, matcher,
                   reconfigs>>

\* The config store's content changes (a draft is deployed).  The store is
\* read by reconfigurations only, so its changes are followed as long as one
\* of them can still read it.
StoreUpdate(c) ==
    /\ store # c
    /\ \E r \in Reconfigs : reconfigs[r].pc \in {"idle", "reading"}
    /\ store' = c
    /\ UNCHANGED <<overflow_checks, bus, call, retryVars, dispatcher_capacity, matcher_config, matcher,
                   reconfigs, dispatcher_mailbox, events>>

\* Handler<ReconfigureMessage>::handle: the future is handed to the context,
\* the handler returns.
ReconfigureMessage_handle(r) ==
    /\ reconfigs[r].pc = "idle"
    /\ \A q \in Reconfigs : q < r => reconfigs[q].pc # "idle"
    /\ reconfigs' = [reconfigs EXCEPT ![r] =
           [@ EXCEPT !.pc = "reading",
                     !.before = [matcher |-> matcher, matcher_config |-> matcher_config]]]
    /\ UNCHANGED <<overflow_checks, bus, call, retryVars, dispatcher_capacity, store, matcher_config, matcher,
                   dispatcher_mailbox, events>>

\* matcher_config_manager.get_config() resolves, with the store's content or
\* with an error.
GetConfigResolves(r, ok) ==
    /\ reconfigs[r].pc = "reading"
    /\ reconfigs' = [reconfigs EXCEPT ![r] =
           [@ EXCEPT !.pc = "read", !.read_ok = ok,
                     !.read = IF ok THEN store ELSE NoConfig]]
    /\ UNCHANGED <<overflow_checks, bus, call, retryVars, dispatcher_capacity, store, matcher_config, matcher,
                   dispatcher_mailbox, events>>

\* The async block of the handler after get_config: Matcher::build.
ReconfigureBuild(read_ok, config) ==
    IF read_ok
    THEN LET built == MatcherBuild(config)
         IN  [ok |-> built.ok, matcher |-> built.matcher,
              matcher_config |-> IF built.ok THEN config ELSE NoConfig]
    ELSE [ok |-> FALSE, matcher |-> NoMatcher, matcher_config |-> NoConfig]

\* A `.map` closure that forgets `this.matcher = matcher`.
ReconfigureMap_ConfigOnly(this, result) ==
    IF result.ok
    THEN [matcher |-> this.matcher, matcher_config |-> result.matcher_config,
          reply_ok |-> TRUE, reply |-> result.matcher_config]
    ELSE [matcher |-> this.matcher, matcher_config |-> this.matcher_config,
          reply_ok |-> FALSE, reply |-> NoConfig]

\* The `.map` closure of the handler: the actor's fields and the reply.
ReconfigureMap(this, result) ==
    IF result.ok
    THEN [matcher |-> result.matcher, matcher_config |-> result.matcher_config,
          reply_ok |-> TRUE, reply |-> result.matcher_config]
    ELSE [matcher |-> this.matcher, matcher_config |-> this.matcher_config,
          reply_ok |-> FALSE, reply |-> NoConfig]

\* The future of a ReconfigureMessage is polled to its end.
ReconfigureCompletes(r) ==
    /\ reconfigs[r].pc = "read"
    /\ LET result == ReconfigureBuild(reconfigs[r].read_ok, reconfigs[r].read)
           out == ReconfigureMap([matcher |-> matcher, matcher_config |-> matcher_config],
                                 result)
       IN  /\ matcher' = out.matcher
           /\ matcher_config' = out.matcher_config
           /\ reconfigs' = [reconfigs EXCEPT ![r] =
                  [IdleReconfig EXCEPT !.pc = "done",
                                       !.reply_ok = out.reply_ok,
                                       !.reply = out.reply]]
    /\ UNCHANGED <<overflow_checks, bus, call, retryVars, dispatcher_capacity, store, dispatcher_mailbox, events>>

(***************************************************************************)
(* SpecValidator: MatcherConfigValidator::validate_rules                   *)
(***************************************************************************)
\* Names are sequences of characters; one character stands for each class
\* the id pattern tells apart: a letter, the underscore, a digit, a dot, a space.
Letter == "a"
IdStartChars == {"a", "_"}
IdChars == {"a", "_", "1"}

\* The pattern ^[a-zA-Z_][a-zA-Z0-9_]*$
MatchesIdPattern(name) ==
    /\ Len(name) >= 1
    /\ name[1] \in IdStartChars
    /\ \A i \in 1..Len(name) : name[i] \in IdChars

\* The pattern a node name is held to: the keys "0" and "1" are accepted.
MatchesNodeNamePattern(name) ==
    /\ Len(name) >= 1
    /\ \A i \in 1..Len(name) : name[i] \in IdChars

\* The n-th valid rule name.
Identifier(n) == [i \in 1..n |-> Letter]

\* Rule names given to validate_rules: the empty name, which the IdValidator
\* rejects, and MaxRuleNames valid identifiers.
RuleNames == {<<>>} \cup {Identifier(n) : n \in 1..MaxRuleNames}

\* A Rule, as far as the validator reads it: its name, whether it is active,
\* the names of its extracted variables (the keys of constraint.with, in the
\* map's iteration order) and the ids of its actions.
Rule(name, active, with, actions) ==
    [name |-> name, active |-> active, with |-> with, actions |-> actions]

Rules ==
    [name : RuleNames, active : BOOLEAN, with : {<<>>, <<<<"a", ".">>>>},
     actions : {<<>>}]

ValidationOk == [ok |-> TRUE, error |-> "none", name |-> <<"none">>]
NotUniqueRuleNameError(name) ==
    [ok |-> FALSE, error |-> "NotUniqueRuleNameError", name |-> name]
NotValidIdOrNameError(name) ==
    [ok |-> FALSE, error |-> "NotValidIdOrNameError", name |-> name]

\* IdValidator::validate_rule_name
validate_rule_name(name) == MatchesIdPattern(name)
\* IdValidator::validate_filter_name
validate_filter_name(name) == MatchesIdPattern(name)
\* IdValidator::validate_extracted_var_name
validate_extracted_var_name(name) == MatchesIdPattern(name)
\* IdValidator::validate_action_id
validate_action_id(name) == MatchesIdPattern(name)
\* IdValidator::validate_node_name
validate_node_name(name) == MatchesNodeNamePattern(name)

\* The first element of the sequence that the check refuses, 0 when none.
FirstRefused(names, Check(_)) ==
    IF \E i \in 1..Len(names) : ~Check(names[i])
    THEN CHOOSE i \in 1..Len(names) :
             ~Check(names[i]) /\ \A k \in 1..(i - 1) : Check(names[k])
    ELSE 0

\* A validate_rule that validates the name of the rule only.
validate_rule_NameOnly(rule) ==
    IF ~validate_rule_name(rule.name)
    THEN NotValidIdOrNameError(rule.name)
    ELSE ValidationOk

\* MatcherConfigValidator::validate_rule
validate_rule(rule) ==
    IF ~validate_rule_name(rule.name)
    THEN NotValidIdOrNameError(rule.name)
    ELSE LET var == FirstRefused(rule.with, validate_extracted_var_name)
             action == FirstRefused(rule.actions, validate_action_id)
         IN  IF var # 0 THEN NotValidIdOrNameError(rule.with[var])
             ELSE IF action # 0 THEN NotValidIdOrNameError(rule.actions[action])
             ELSE ValidationOk

\* A check_unique_name that compares the name with the last one seen only.
check_unique_name_LastOnly(rule_names, name) ==
    IF Len(rule_names) > 0 /\ rule_names[Len(rule_names)] = name
    THEN [result |-> NotUniqueRuleNameError(name), rule_names |-> rule_names]
    ELSE [result |-> ValidationOk, rule_names |-> Append(rule_names, name)]

\* MatcherConfigValidator::check_unique_name: the result and the names seen.
check_unique_name(rule_names, name) ==
    IF \E i \in 1..Len(rule_names) : rule_names[i] = name
    THEN [result |-> NotUniqueRuleNameError(name), rule_names |-> rule_names]
    ELSE [result |-> ValidationOk, rule_names |-> Append(rule_names, name)]

\* A loop of validate_rules that validates the inactive rules as well.
RECURSIVE validate_rules_loop_IgnoresActive(_, _, _)
validate_rules_loop_IgnoresActive(rules, i, rule_names) ==
    IF i > Len(rules)
    THEN ValidationOk
    ELSE LET valid == validate_rule(rules[i])
             unique == check_unique_name(rule_names, rules[i].name)
         IN  IF ~valid.ok THEN valid
             ELSE IF ~unique.result.ok THEN unique.result
             ELSE validate_rules_loop_IgnoresActive(rules, i + 1, unique.rule_names)

\* The loop of validate_rules from the i-th rule on, with the names seen so far.
RECURSIVE validate_rules_loop(_, _, _)
validate_rules_loop(rules, i, rule_names) ==
    IF i > Len(rules)
    THEN ValidationOk
    ELSE IF rules[i].active
         THEN LET valid == validate_rule(rules[i])
                  unique == check_unique_name(rule_names, rules[i].name)
              IN  IF ~valid.ok THEN valid
                  ELSE IF ~unique.result.ok THEN unique.result
                  ELSE validate_rules_loop(rules, i + 1, unique.rule_names)
         ELSE validate_rules_loop(rules, i + 1, rule_names)

\* MatcherConfigValidator::validate_rules
validate_rules(rules) == validate_rules_loop(rules, 1, <<>>)

\* MatcherConfig: a Ruleset, or a Filter with its named child nodes in the
\* iteration order of the map (the order of their keys).
RulesNode(rules) ==
    [type |-> "Rules", rules |-> rules, name |-> <<>>, nodes |-> <<>>]
FilterNode(name, nodes) ==
    [type |-> "Filter", rules |-> <<>>, name |-> name, nodes |-> nodes]
Node(key, config) == [key |-> key, config |-> config]

RECURSIVE validate(_)
RECURSIVE validate_nodes_loop(_, _)

\* A loop over the nodes of a Filter that validates their names only.
validate_nodes_loop_NamesOnly(nodes, i) ==
    LET refused == FirstRefused([k \in 1..Len(nodes) |-> nodes[k].key],
                                validate_node_name)
    IN  IF refused # 0 THEN NotValidIdOrNameError(nodes[refused].key)
        ELSE ValidationOk

\* The loop of validate_filter over the nodes, from the i-th node on.
validate_nodes_loop(nodes, i) ==
    IF i > Len(nodes)
    THEN ValidationOk
    ELSE IF ~validate_node_name(nodes[i].key)
         THEN NotValidIdOrNameError(nodes[i].key)
         ELSE LET child == validate(nodes[i].config)
              IN  IF ~child.ok THEN child
                  ELSE validate_nodes_loop(nodes, i + 1)

\* MatcherConfigValidator::validate_filter
validate_filter(name, nodes) ==
    IF ~validate_filter_name(name)
    THEN NotValidIdOrNameError(name)
    ELSE validate_nodes_loop(nodes, 1)

\* MatcherConfigValidator::validate
validate(config) ==
    IF config.type = "Rules"
    THEN validate_rules(config.rules)
    ELSE validate_filter(config.name, config.nodes)

\* The list without its inactive rules.
WithoutInactive(rules) == SelectSeq(rules, LAMBDA rule : rule.active)

\* The empty Ruleset, not yet validated.
EmptyRuleset ==
    [rules |-> <<>>, applied |-> FALSE, result |-> ValidationOk,
     result_without_inactive |-> ValidationOk]

\* validate is called on the drawn Ruleset, and on the same Ruleset with the
\* inactive rules removed.
ApplyValidate ==
    /\ ~call.applied
    /\ call' = [call EXCEPT !.applied = TRUE,
                            !.result = validate(RulesNode(call.rules)),
                            !.result_without_inactive =
                                validate(RulesNode(WithoutInactive(call.rules)))]
    /\ UNCHANGED <<overflow_checks, bus, retryVars, matcherVars>>

\* A rule is appended to the Ruleset before it is validated.
AddRule(rule) ==
    /\ ~call.applied
    /\ Len(call.rules) < MaxRules
    /\ call' = [call EXCEPT !.rules = Append(@, rule)]
    /\ UNCHANGED <<overflow_checks, bus, retryVars, matcherVars>>

(***************************************************************************)
(* Specifications                                                          *)
(***************************************************************************)
\* The event bus of the engine (ActixEventBus and its callback)
(***************************************************************************)
\* The executors the callback of the event bus knows, by action id.
Executors == {"archive", "icinga2", "script"}

\* Ids of the actions published on the bus: those of the executors, and one
\* that no executor is registered for.
ActionIds == Executors \cup {"unknown"}

\* published: the actions given to publish_action, in order; mailbox: the
\* ActionMessages sent with do_send to each executor's address; errors: the
\* ids logged with error!.
EmptyBus ==
    [published |-> <<>>,
     mailbox |-> [executor \in Executors |-> <<>>],
     errors |-> <<>>]

\* Addr::do_send: the message is queued whatever the capacity of the mailbox.
do_send(mailbox, message) == Append(mailbox, message)

\* A callback that sends every action to every executor.
callback_Broadcast(b, action) ==
    [b EXCEPT !.mailbox = [executor \in Executors |->
                               do_send(b.mailbox[executor], action)]]

\* The callback of the ActixEventBus built in start_tornado.
callback(b, action) ==
    IF action.id = "archive"
    THEN [b EXCEPT !.mailbox["archive"] = do_send(@, action)]
    ELSE IF action.id = "icinga2"
    THEN [b EXCEPT !.mailbox["icinga2"] = do_send(@, action)]
    ELSE IF action.id = "script"
    THEN [b EXCEPT !.mailbox["script"] = do_send(@, action)]
    ELSE [b EXCEPT !.errors = Append(@, action.id)]

\* EventBus::publish_action of the ActixEventBus: the callback is called.
\* The payload of the action tells it from the other actions published.
ActixEventBus_publish_action(id) ==
    /\ Len(bus.published) < MaxPublished
    /\ LET action == [id |-> id, payload |-> Len(bus.published) + 1]
       IN  bus' = callback([bus EXCEPT !.published = Append(@, action)], action)
    /\ UNCHANGED <<overflow_checks, call, retryVars, matcherVars>>

(***************************************************************************)
\* Values (tornado_common_api::Value) and the ForEachExecutor
(***************************************************************************)
\* A String is the sequence of the parts of its text: literal text, ${...}
\* expressions (the path that follows `item`), and a ${ that is never closed.
Lit(text) == [part |-> "lit", text |-> text, path |-> <<>>]
Expr(path) == [part |-> "expr", text |-> "", path |-> path]
Open == [part |-> "open", text |-> "", path |-> <<>>]

String(parts) == [kind |-> "String", parts |-> parts, elems |-> <<>>]
Number == [kind |-> "Number", parts |-> <<>>, elems |-> <<>>]
Array(elems) == [kind |-> "Array", parts |-> <<>>, elems |-> elems]
\* The entries of an Object, in the iteration order of the map.
Object(entries) == [kind |-> "Object", parts |-> <<>>, elems |-> entries]
MapEntry(key, value) == [key |-> key, value |-> value]
\* Option::None
None == [kind |-> "None", parts |-> <<>>, elems |-> <<>>]

\* Map::get
Get(entries, key) ==
    IF \E i \in 1..Len(entries) : entries[i].key = key
    THEN entries[CHOOSE i \in 1..Len(entries) : entries[i].key = key].value
    ELSE None

\* ParserBuilder::build_parser succeeds unless a ${ is not closed.
build_parser(parts) == \A i \in 1..Len(parts) : parts[i].part # "open"

\* The value at a path of array indexes, bounds-safe.
RECURSIVE Lookup(_, _)
Lookup(value, path) ==
    IF path = <<>> THEN value
    ELSE IF value.kind = "Array" /\ Head(path) < Len(value.elems)
         THEN Lookup(value.elems[Head(path) + 1], Tail(path))
         ELSE None

\* The text an expression result is written as in an interpolated string.
Stringify(value) ==
    IF value.kind = "String" THEN value.parts ELSE <<Lit(value.kind)>>

RECURSIVE Interpolate(_, _, _)
Interpolate(parts, item, i) ==
    IF i > Len(parts) THEN <<>>
    ELSE (IF parts[i].part = "expr"
          THEN Stringify(Lookup(item, parts[i].path))
          ELSE <<parts[i]>>) \o Interpolate(parts, item, i + 1)

\* Parser::parse_value: the raw value when the text is one expression, the
\* interpolated String otherwise; None when an expression finds nothing.
parse_value(parts, item) ==
    IF \E i \in 1..Len(parts) :
           parts[i].part = "expr" /\ Lookup(item, parts[i].path) = None
    THEN None
    ELSE IF Len(parts) = 1 /\ parts[1].part = "expr"
         THEN Lookup(item, parts[1].path)
         ELSE String(Interpolate(parts, item, 1))

Resolved(value) == [ok |-> TRUE, value |-> value]
ActionExecutionError == [ok |-> FALSE, value |-> None]

\* resolve_payload: the value with its strings resolved against the item, or
\* the error of the first string whose parser cannot be built.
RECURSIVE resolve_payload(_, _)
resolve_payload(item, value) ==
    IF value.kind = "String"
    THEN IF ~build_parser(value.parts)
         THEN ActionExecutionError
         ELSE LET parse_result == parse_value(value.parts, item)
              IN  IF parse_result # None THEN Resolved(parse_result)
                  ELSE Resolved(value)
    ELSE IF value.kind = "Array"
    THEN LET elements == [i \in 1..Len(value.elems) |->
                              resolve_payload(item, value.elems[i])]
         IN  IF \E i \in 1..Len(elements) : ~elements[i].ok
             THEN ActionExecutionError
             ELSE Resolved(Array([i \in 1..Len(elements) |-> elements[i].value]))
    ELSE IF value.kind = "Object"
    THEN LET elements == [i \in 1..Len(value.elems) |->
                              resolve_payload(item, value.elems[i].value)]
         IN  IF \E i \in 1..Len(elements) : ~elements[i].ok
             THEN ActionExecutionError
             ELSE Resolved(Object([i \in 1..Len(elements) |->
                              MapEntry(value.elems[i].key, elements[i].value)]))
    ELSE Resolved(value)

\* Action { id, payload }: payload holds the entries of the payload map.
Action(id, payload) == [id |-> id, payload |-> payload]

\* resolve_action: every element of the payload of the action is resolved.
resolve_action(item, action) ==
    LET payload == resolve_payload(item, Object(action.payload))
    IN  IF payload.ok
        THEN [ok |-> TRUE, action |-> Action(action.id, payload.value.elems)]
        ELSE [ok |-> FALSE, action |-> action]

MissingArgumentError == [ok |-> FALSE, action |-> Action(<<>>, <<>>)]

\* A to_action that takes an entry without payload as one with an empty one.
to_action_PayloadOptional(value) ==
    IF value.kind = "Object" /\ Get(value.elems, "id").kind = "String"
    THEN [ok |-> TRUE,
          action |-> Action(Get(value.elems, "id").parts,
                            Get(value.elems, "payload").elems)]
    ELSE MissingArgumentError

\* to_action
to_action(value) ==
    IF value.kind = "Object"
    THEN IF Get(value.elems, "id").kind = "String"
         THEN IF Get(value.elems, "payload").kind = "Object"
              THEN [ok |-> TRUE,
                    action |-> Action(Get(value.elems, "id").parts,
                                      Get(value.elems, "payload").elems)]
              ELSE MissingArgumentError
         ELSE MissingArgumentError
    ELSE MissingArgumentError

\* EventBus::publish_action, as far as the executor sees the bus.
publish_action(b, action) == [b EXCEPT !.published = Append(@, action)]

RECURSIVE for_each(_, _, _, _, _)

\* A loop that goes through the target item by item, and for each item
\* through the actions.
for_each_ItemFirst(b, actions, values, a, v) ==
    LET Pairs == {<<i, j>> \in (1..Len(values)) \X (1..Len(actions)) :
                     resolve_action(values[i], actions[j]).ok}
        Before(p, q) == p[1] < q[1] \/ (p[1] = q[1] /\ p[2] < q[2])
        ordered == [k \in 1..Cardinality(Pairs) |->
                       CHOOSE p \in Pairs :
                           Cardinality({q \in Pairs : Before(q, p)}) = k - 1]
    IN  [b EXCEPT !.published = @ \o
            [k \in 1..Len(ordered) |->
                resolve_action(values[ordered[k][1]], actions[ordered[k][2]]).action]]

\* A loop that ends at the first action that cannot be resolved.
for_each_StopsAtFailure(b, actions, values, a, v) ==
    IF a > Len(actions) THEN b
    ELSE IF v > Len(values) THEN for_each(b, actions, values, a + 1, 1)
    ELSE LET resolved == resolve_action(values[v], actions[a])
         IN  IF resolved.ok
             THEN for_each(publish_action(b, resolved.action), actions, values, a, v + 1)
             ELSE b

\* actions.into_iter().for_each(|action| for value in values.iter() {..}),
\* from the v-th value of the a-th action on: the resolved action is
\* published, a failure to resolve it is logged with warn!.
for_each(b, actions, values, a, v) ==
    IF a > Len(actions) THEN b
    ELSE IF v > Len(values) THEN for_each(b, actions, values, a + 1, 1)
    ELSE LET resolved == resolve_action(values[v], actions[a])
         IN  for_each(IF resolved.ok THEN publish_action(b, resolved.action) ELSE b,
                      actions, values, a, v + 1)

\* Vec<Action> collected from the entries to_action accepts.
CollectActions(entries) ==
    LET converted == [i \in 1..Len(entries) |-> to_action(entries[i])]
        accepted == SelectSeq(converted, LAMBDA result : result.ok)
    IN  [i \in 1..Len(accepted) |-> accepted[i].action]

\* An execute that takes a missing `actions` for an empty list of actions.
execute_ActionsOptional(b, payload) ==
    IF Get(payload, "target").kind = "Array"
    THEN [result |-> "Ok",
          bus |-> for_each(b, CollectActions(Get(payload, "actions").elems),
                           Get(payload, "target").elems, 1, 1)]
    ELSE [result |-> "MissingArgumentError", bus |-> b]

\* ForEachExecutor::execute on an action with the given payload: the result
\* and the bus after it.
execute(b, payload) ==
    IF Get(payload, "target").kind = "Array"
    THEN IF Get(payload, "actions").kind = "Array"
         THEN [result |-> "Ok",
               bus |-> for_each(b, CollectActions(Get(payload, "actions").elems),
                                Get(payload, "target").elems, 1, 1)]
         ELSE [result |-> "MissingArgumentError", bus |-> b]
    ELSE [result |-> "MissingArgumentError", bus |-> b]

\* Items of the `target` array.
SampleItems ==
    {String(<<Lit("first")>>),
     Array(<<String(<<Lit("first")>>), String(<<Lit("second")>>)>>),
     Number}

\* Payloads of the entries of `actions`: a placeholder at the top, in a
\* nested map, in a nested array inside an interpolated text, and a text
\* with a ${ that is not closed.
SamplePayloads ==
    {Object(<<MapEntry("value", String(<<Expr(<<>>)>>))>>),
     Object(<<MapEntry("inner",
                Object(<<MapEntry("value", String(<<Expr(<<0>>)>>))>>))>>),
     Object(<<MapEntry("inner",
                Array(<<String(<<Expr(<<0>>), Lit("+"), Expr(<<1>>)>>),
                        String(<<Lit("const")>>)>>))>>),
     Object(<<MapEntry("value", String(<<Lit("text"), Open>>))>>)}

\* Entries of `actions`: objects with a string id and an object payload,
\* and entries that lack one of them.
SampleEntries ==
    {Object(<<MapEntry("id", String(<<Lit("id_one")>>)), MapEntry("payload", payload)>>) :
        payload \in SamplePayloads}
    \cup
    {Object(<<MapEntry("id", String(<<Lit("id_two")>>)),
              MapEntry("payload",
                  Object(<<MapEntry("value", String(<<Expr(<<>>)>>))>>))>>),
     Array(<<>>),
     Object(<<MapEntry("payload", Object(<<>>))>>),
     Object(<<MapEntry("id", Number), MapEntry("payload", Object(<<>>))>>),
     Object(<<MapEntry("id", String(<<Lit("id_one")>>))>>),
     Object(<<MapEntry("id", String(<<Lit("id_one")>>)),
              MapEntry("payload", Array(<<>>))>>)}

\* The `target` and `actions` an action given to the executor starts with:
\* an empty array, a value that is not an array, or no value.
ForEachCalls ==
    [target : {Array(<<>>), None, Number}, actions : {Array(<<>>), None, Number},
     applied : {FALSE}, result : {"none"}]

\* The payload of the action given to execute.
ForEachPayload(c) ==
    (IF c.target = None THEN <<>> ELSE <<MapEntry("target", c.target)>>)
    \o (IF c.actions = None THEN <<>> ELSE <<MapEntry("actions", c.actions)>>)

AddTargetItem(item) ==
    /\ ~call.applied
    /\ call.target.kind = "Array"
    /\ Len(call.target.elems) < MaxItems
    /\ call' = [call EXCEPT !.target.elems = Append(@, item)]
    /\ UNCHANGED <<overflow_checks, bus, retryVars, matcherVars>>

AddActionEntry(entry) ==
    /\ ~call.applied
    /\ call.actions.kind = "Array"
    /\ Len(call.actions.elems) < MaxEntries
    /\ call' = [call EXCEPT !.actions.elems = Append(@, entry)]
    /\ UNCHANGED <<overflow_checks, bus, retryVars, matcherVars>>

\* The executor receives the action.
ForEachExecutor_execute ==
    /\ ~call.applied
    /\ LET executed == execute(bus, ForEachPayload(call))
       IN  /\ call' = [call EXCEPT !.applied = TRUE, !.result = executed.result]
           /\ bus' = executed.bus
    /\ UNCHANGED <<overflow_checks, retryVars, matcherVars>>

(***************************************************************************)
\* The contain operator
(***************************************************************************)
\* The characters of the texts the accessors resolve to.
Chars == {"a", "b"}

\* to_option_str: the text of a value that is a string, None otherwise.
to_option_str(option) ==
    IF option.kind = "String" THEN option ELSE None

\* str::contains
contains(text, substring) ==
    \E i \in 0..(Len(text) - Len(substring)) :
        SubSeq(text, i + 1, i + Len(substring)) = substring

\* A contain that looks for the substring at the start of the text only.
Contain_evaluate_StartsWith(option_text, option_substring) ==
    /\ to_option_str(option_text) # None
    /\ to_option_str(option_substring) # None
    /\ Len(option_substring.parts) <= Len(option_text.parts)
    /\ SubSeq(option_text.parts, 1, Len(option_substring.parts))
           = option_substring.parts

\* Contain::evaluate, given what self.text.get(event) and
\* self.substring.get(event) return.
Contain_evaluate(option_text, option_substring) ==
    IF to_option_str(option_text) # None
    THEN IF to_option_str(option_substring) # None
         THEN contains(to_option_str(option_text).parts,
                       to_option_str(option_substring).parts)
         ELSE FALSE
    ELSE FALSE

\* What the two accessors return before any character is appended: nothing,
\* a value that is not a string, the empty text.
ContainCalls ==
    [text : {None, Number, String(<<>>)},
     substring : {None, Number, String(<<>>)},
     applied : {FALSE}, result : {FALSE}]

AppendToText(char) ==
    /\ ~call.applied
    /\ call.text.kind = "String"
    /\ Len(call.text.parts) < MaxTextLen
    /\ call' = [call EXCEPT !.text.parts = Append(@, Lit(char))]
    /\ UNCHANGED <<overflow_checks, bus, retryVars, matcherVars>>

AppendToSubstring(char) ==
    /\ ~call.applied
    /\ call.substring.kind = "String"
    /\ Len(call.substring.parts) < MaxTextLen
    /\ call' = [call EXCEPT !.substring.parts = Append(@, Lit(char))]
    /\ UNCHANGED <<overflow_checks, bus, retryVars, matcherVars>>

\* The operator is evaluated on the event.
ApplyContain ==
    /\ ~call.applied
    /\ call' = [call EXCEPT !.applied = TRUE,
                            !.result = Contain_evaluate(call.text, call.substring)]
    /\ UNCHANGED <<overflow_checks, bus, retryVars, matcherVars>>

(***************************************************************************)
\* Matcher::process on a tree of Filters and Rulesets, and the Dispatcher
(***************************************************************************)
\* A compiled rule, as the event being processed sees it: whether its WHERE
\* operator holds for the event, whether its extractors all find a match,
\* its continue flag and its actions.
MatcherRule(where, extractors, do_continue, actions) ==
    [where |-> where, extractors |-> extractors, do_continue |-> do_continue,
     actions |-> actions]

\* A node of the matcher tree.  The filter of a Filter node is "none", or
\* what its operator evaluates to for the event: "true" or "false".
MatcherRuleset(rules) ==
    [kind |-> "Ruleset", filter |-> "none", rules |-> rules, nodes |-> <<>>]
MatcherFilter(filter, nodes) ==
    [kind |-> "Filter", filter |-> filter, rules |-> <<>>, nodes |-> nodes]

\* ProcessedRule and ProcessedNode
ProcessedRule(status, actions) == [status |-> status, actions |-> actions]
ProcessedRuleset(rules) ==
    [kind |-> "Ruleset", status |-> "none", rules |-> rules, nodes |-> <<>>]
ProcessedFilter(status, nodes) ==
    [kind |-> "Filter", status |-> status, rules |-> <<>>, nodes |-> nodes]

\* The processing of one rule that is reached.
process_rule(rule) ==
    IF ~rule.where THEN ProcessedRule("NotMatched", <<>>)
    ELSE IF ~rule.extractors THEN ProcessedRule("PartiallyMatched", <<>>)
    ELSE ProcessedRule("Matched", rule.actions)

RECURSIVE process_rules(_, _, _)

\* A processing of the rules that does not look at the continue flag.
process_rules_AlwaysContinues(rules, i, stopped) ==
    [k \in 1..Len(rules) |-> process_rule(rules[k])]

\* The processing of the rules of a Ruleset from the i-th on; stopped: a
\* matched rule before them has do_continue = false.
process_rules(rules, i, stopped) ==
    IF i > Len(rules) THEN <<>>
    ELSE IF stopped
         THEN <<ProcessedRule("NotProcessed", <<>>)>>
                  \o process_rules(rules, i + 1, TRUE)
         ELSE LET processed == process_rule(rules[i])
              IN  <<processed>> \o
                  process_rules(rules, i + 1,
                      processed.status = "Matched" /\ ~rules[i].do_continue)

\* The record of a node that is not descended into.
RECURSIVE not_processed(_)
not_processed(node) ==
    IF node.kind = "Ruleset"
    THEN ProcessedRuleset([k \in 1..Len(node.rules) |->
                               ProcessedRule("NotProcessed", <<>>)])
    ELSE ProcessedFilter("NotProcessed",
                         [k \in 1..Len(node.nodes) |-> not_processed(node.nodes[k])])

RECURSIVE process_node(_)

\* A processing that descends into the children of a Filter whatever its
\* operator evaluates to.
process_node_AlwaysDescends(node) ==
    IF node.kind = "Ruleset"
    THEN ProcessedRuleset(process_rules(node.rules, 1, FALSE))
    ELSE ProcessedFilter(IF node.filter = "false" THEN "NotMatched" ELSE "Matched",
                         [k \in 1..Len(node.nodes) |-> process_node(node.nodes[k])])

\* Matcher::process on a node of the tree.
process_node(node) ==
    IF node.kind = "Ruleset"
    THEN ProcessedRuleset(process_rules(node.rules, 1, FALSE))
    ELSE IF node.filter = "false"
         THEN ProcessedFilter("NotMatched",
                  [k \in 1..Len(node.nodes) |-> not_processed(node.nodes[k])])
         ELSE ProcessedFilter("Matched",
                  [k \in 1..Len(node.nodes) |-> process_node(node.nodes[k])])

\* MatcherActor::process: the matcher processes the event.
MatcherActor_process(m) == process_node(m)

\* The concatenation of the sequences of a sequence.
RECURSIVE Flatten(_)
Flatten(seqs) ==
    IF seqs = <<>> THEN <<>> ELSE Head(seqs) \o Flatten(Tail(seqs))

\* Dispatcher::dispatch_actions: the actions of the Matched rules of the
\* processed tree, in traversal order.
RECURSIVE dispatch_actions(_)
dispatch_actions(node) ==
    IF node.kind = "Ruleset"
    THEN Flatten([k \in 1..Len(node.rules) |->
                     IF node.rules[k].status = "Matched"
                     THEN node.rules[k].actions ELSE <<>>])
    ELSE Flatten([k \in 1..Len(node.nodes) |-> dispatch_actions(node.nodes[k])])

\* The actions are published one after the other on the event bus the
\* dispatcher was built with.
RECURSIVE publish_actions(_, _)
publish_actions(b, actions) ==
    IF actions = <<>> THEN b
    ELSE publish_actions(
             callback([b EXCEPT !.published = Append(@, Head(actions))],
                      Head(actions)),
             Tail(actions))

\* Rules added to the Ruleset the tree starts as: one that matches and
\* continues, one that matches and stops, one whose WHERE does not hold, one
\* whose extractor finds nothing.
SampleMatcherRules ==
    {MatcherRule(TRUE, TRUE, TRUE, <<"archive">>),
     MatcherRule(TRUE, TRUE, FALSE, <<"script", "icinga2">>),
     MatcherRule(FALSE, TRUE, FALSE, <<"archive">>),
     MatcherRule(TRUE, FALSE, TRUE, <<"unknown">>)}

\* Second children of a Filter: their rules match, the first one stops in
\* the second Ruleset.
SampleMatcherSiblings ==
    {<<MatcherRule(TRUE, TRUE, TRUE, <<"script">>)>>,
     <<MatcherRule(TRUE, TRUE, FALSE, <<"archive">>),
       MatcherRule(TRUE, TRUE, TRUE, <<"icinga2">>)>>}

\* The k-th action of a rule: its id and, as payload, the number of the rule
\* in traversal order and k.
NumberedRule(rule, number) ==
    [rule EXCEPT !.actions =
        [k \in 1..Len(rule.actions) |->
            [id |-> rule.actions[k], payload |-> <<number, k>>]]]

EmptyMatcher ==
    [tree |-> MatcherRuleset(<<>>), depth |-> 0, siblings |-> 0, rules |-> 0,
     applied |-> FALSE, dispatched |-> FALSE,
     processed |-> ProcessedRuleset(<<>>)]

AddMatcherRule(rule) ==
    /\ ~call.applied
    /\ call.tree.kind = "Ruleset"
    /\ Len(call.tree.rules) < MaxMatcherRules
    /\ call' = [call EXCEPT
                   !.tree.rules = Append(@, NumberedRule(rule, call.rules + 1)),
                   !.rules = @ + 1]
    /\ UNCHANGED <<overflow_checks, bus, retryVars, matcherVars>>

\* The tree becomes the first child of a new Filter.
WrapInMatcherFilter(filter) ==
    /\ ~call.applied
    /\ call.depth < MaxMatcherDepth
    /\ call' = [call EXCEPT !.tree = MatcherFilter(filter, <<call.tree>>),
                            !.depth = @ + 1]
    /\ UNCHANGED <<overflow_checks, bus, retryVars, matcherVars>>

\* The root Filter gets a Ruleset as its second child.
AddMatcherSibling(rules) ==
    /\ ~call.applied
    /\ call.tree.kind = "Filter"
    /\ call.siblings = 0
    /\ call' = [call EXCEPT
                   !.tree.nodes = Append(@, MatcherRuleset(
                       [k \in 1..Len(rules) |->
                           NumberedRule(rules[k], call.rules + k)])),
                   !.rules = @ + Len(rules),
                   !.siblings = @ + 1]
    /\ UNCHANGED <<overflow_checks, bus, retryVars, matcherVars>>

\* The MatcherActor processes the event.
ProcessEvent ==
    /\ ~call.applied
    /\ call' = [call EXCEPT !.applied = TRUE,
                            !.processed = MatcherActor_process(call.tree)]
    /\ UNCHANGED <<overflow_checks, bus, retryVars, matcherVars>>

\* The DispatcherActor receives the ProcessedEvent.
DispatcherActor_handle ==
    /\ call.applied
    /\ ~call.dispatched
    /\ call' = [call EXCEPT !.dispatched = TRUE]
    /\ bus' = publish_actions(bus, dispatch_actions(call.processed))
    /\ UNCHANGED <<overflow_checks, retryVars, matcherVars>>

(***************************************************************************)
\* The ArchiveExecutor
(***************************************************************************)
\* A path is the sequence of its segments; ".." is the parent directory.
PathSegments == {"first", ".."}

\* ArchiveExecutor.base_path, default_path and the template of the archive
\* type "one": /one/${key_one}/file.log
base_path == <<"tmp", "archive">>
default_path == <<"default", "file.out">>
ArchiveTypes == {"one"}

\* PathMatcher::build_path: the value of the key is put in the place of its
\* placeholder; it fails when the payload has no text for the key.
build_path(payload) ==
    IF payload.key_one_is_text
    THEN [ok |-> TRUE, path |-> <<"one">> \o payload.key_one \o <<"file.log">>]
    ELSE [ok |-> FALSE, path |-> <<>>]

\* format!("{}/{}", self.base_path, relative_path), opened for append.
ArchiveExecutor_write(relative_path) == base_path \o relative_path

NoFile == <<"none">>

\* ArchiveExecutor::execute: the result and the path of the file opened.
ArchiveExecutor_execute(payload) ==
    IF payload.archive_type = "none"
    THEN [result |-> "ActionExecutionError", written |-> NoFile]
    ELSE IF ~payload.has_event
    THEN [result |-> "ActionExecutionError", written |-> NoFile]
    ELSE LET path == IF payload.archive_type \in ArchiveTypes
                     THEN IF build_path(payload).ok
                          THEN build_path(payload).path
                          ELSE default_path
                     ELSE default_path
         IN  [result |-> "Ok", written |-> ArchiveExecutor_write(path)]

\* Payloads of the action before a segment is added to the value of key_one.
ArchiveCalls ==
    [archive_type : {"one", "other", "none"}, has_event : BOOLEAN,
     key_one_is_text : BOOLEAN, key_one : {<<>>},
     applied : {FALSE}, result : {"none"}, written : {NoFile}]

AppendSegment(segment) ==
    /\ ~call.applied
    /\ call.key_one_is_text
    /\ Len(call.key_one) < MaxValueSegments
    /\ call' = [call EXCEPT !.key_one = Append(@, segment)]
    /\ UNCHANGED <<overflow_checks, bus, retryVars, matcherVars>>

ApplyArchive ==
    /\ ~call.applied
    /\ LET executed == ArchiveExecutor_execute(call)
       IN  call' = [call EXCEPT !.applied = TRUE,
                                !.result = executed.result,
                                !.written = executed.written]
    /\ UNCHANGED <<overflow_checks, bus, retryVars, matcherVars>>

(***************************************************************************)
\* AuthContextV2
(***************************************************************************)
AuthUsers == {"", "my_user", "other_user"}
AuthRoles == {"view", "edit", "guest"}
Permissions == {"ConfigEdit", "ConfigView", "RuntimeConfigView"}

\* permission_roles_map: the roles each permission is granted to.
permission_roles_map ==
    [permission \in Permissions |->
        IF permission = "ConfigEdit" THEN {"edit"}
        ELSE IF permission = "ConfigView" THEN {"edit", "view"}
        ELSE {"runtime_config_view"}]

\* roles_contain_any_permission
roles_contain_any_permission(map, roles, permissions) ==
    \E permission \in permissions : \E role \in roles : role \in map[permission]

\* AuthContextV2::new
AuthContextV2_new(user, roles) ==
    [user |-> user, roles |-> roles, valid |-> user # ""]

\* AuthContextV2::from_header: the authorization of the auth key, when the
\* header has it.
AuthContextV2_from_header(user, auths, auth_key) ==
    IF auth_key \in DOMAIN auths
    THEN [ok |-> TRUE,
          context |-> [user |-> user, roles |-> auths[auth_key], valid |-> user # ""]]
    ELSE [ok |-> FALSE, context |-> [user |-> user, roles |-> {}, valid |-> FALSE]]

\* AuthContextV2::is_authenticated
is_authenticated(self) ==
    IF ~self.valid THEN "UnauthenticatedError" ELSE "Ok"

\* A has_any_permission that does not ask whether the context is valid.
has_any_permission_Unauthenticated(self, permissions) ==
    IF roles_contain_any_permission(permission_roles_map, self.roles, permissions)
    THEN "Ok" ELSE "ForbiddenError"

\* AuthContextV2::has_any_permission
has_any_permission(self, permissions) ==
    IF is_authenticated(self) # "Ok" THEN is_authenticated(self)
    ELSE IF roles_contain_any_permission(permission_roles_map, self.roles,
                                         permissions)
         THEN "Ok" ELSE "ForbiddenError"

\* AuthContextV2::has_permission
has_permission(self, permission) == has_any_permission(self, {permission})

\* AuthContextV2::is_owner, given the owner of the object.
is_owner(self, owner) ==
    IF is_authenticated(self) # "Ok" THEN is_authenticated(self)
    ELSE IF self.user = owner THEN "Ok" ELSE "ForbiddenError"

NoContext == [user |-> "", roles |-> {}, valid |-> FALSE]

\* The user of the header, or of the AuthV2 given to new; its roles are
\* added one by one.
AuthCalls ==
    [user : AuthUsers, roles : {{}}, built : {"none"}, context : {NoContext},
     checked : {"none"}, permissions : {{}}, owner : {""}, result : {"none"}]

AddRole(role) ==
    /\ call.built = "none"
    /\ role \notin call.roles
    /\ call' = [call EXCEPT !.roles = @ \cup {role}]
    /\ UNCHANGED <<overflow_checks, bus, retryVars, matcherVars>>

BuildWithNew ==
    /\ call.built = "none"
    /\ call' = [call EXCEPT !.built = "new",
                            !.context = AuthContextV2_new(call.user, call.roles)]
    /\ UNCHANGED <<overflow_checks, bus, retryVars, matcherVars>>

\* The header holds the roles under the key "auth_key_1".
BuildFromHeader(auth_key) ==
    /\ call.built = "none"
    /\ LET built == AuthContextV2_from_header(
                        call.user, [key \in {"auth_key_1"} |-> call.roles], auth_key)
       IN  call' = [call EXCEPT
                       !.built = IF built.ok THEN "from_header" ELSE "InvalidAuthKeyError",
                       !.context = built.context]
    /\ UNCHANGED <<overflow_checks, bus, retryVars, matcherVars>>

Built == call.built \in {"new", "from_header"}

CheckIsAuthenticated ==
    /\ Built /\ call.checked = "none"
    /\ call' = [call EXCEPT !.checked = "is_authenticated",
                            !.result = is_authenticated(call.context)]
    /\ UNCHANGED <<overflow_checks, bus, retryVars, matcherVars>>

CheckHasPermission(permission) ==
    /\ Built /\ call.checked = "none"
    /\ call' = [call EXCEPT !.checked = "has_permission",
                            !.permissions = {permission},
                            !.result = has_permission(call.context, permission)]
    /\ UNCHANGED <<overflow_checks, bus, retryVars, matcherVars>>

CheckHasAnyPermission(permissions) ==
    /\ Built /\ call.checked = "none"
    /\ call' = [call EXCEPT !.checked = "has_any_permission",
                            !.permissions = permissions,
                            !.result = has_any_permission(call.context, permissions)]
    /\ UNCHANGED <<overflow_checks, bus, retryVars, matcherVars>>

CheckIsOwner(owner) ==
    /\ Built /\ call.checked = "none"
    /\ call' = [call EXCEPT !.checked = "is_owner",
                            !.owner = owner,
                            !.result = is_owner(call.context, owner)]
    /\ UNCHANGED <<overflow_checks, bus, retryVars, matcherVars>>

(***************************************************************************)
\* Values of the variables a specification does not use.
RetryIdle ==
    /\ retry_strategy = [retry_policy |-> RetryPolicyNone,
                         backoff_policy |-> BackoffPolicyNone]
    /\ tasks = [t \in Tasks |-> IdleTask]

MatcherIdle ==
    /\ store = NoConfig
    /\ matcher_config = NoConfig
    /\ matcher = NoMatcher
    /\ reconfigs = [r \in Reconfigs |-> IdleReconfig]
    /\ dispatcher_mailbox = <<>>
    /\ dispatcher_capacity = DispatcherCapacity
    /\ events = [e \in Events |-> NewEvent]

InitPolicy ==
    /\ overflow_checks \in BOOLEAN
    /\ call \in PolicyCalls
    /\ bus = EmptyBus
    /\ RetryIdle
    /\ MatcherIdle

NextPolicy == ApplyShouldRetry \/ DrawInputs

SpecPolicy == InitPolicy /\ [][NextPolicy]_vars

\* Names given to the validator of a configuration tree: a valid identifier,
\* the empty name, a name that starts with a digit, a name with a dot.
SampleNames == {<<"a">>, <<>>, <<"1", "a">>, <<"a", ".">>}

\* The (filter name, node name) pairs a Filter is built with: one of the two
\* is the valid identifier.
SampleFilters ==
    {<<name, key>> \in SampleNames \X SampleNames :
        name = <<"a">> \/ key = <<"a">>}

\* Rules of the nested Rulesets: a valid one, an active and an inactive one
\* with an invalid name, one with an invalid extracted variable name, one with
\* an invalid action id.
SampleRules ==
    {Rule(<<"a">>, TRUE, <<>>, <<>>),
     Rule(<<"1", "a">>, TRUE, <<>>, <<>>),
     Rule(<<"a", ".">>, FALSE, <<>>, <<>>),
     Rule(<<"a">>, TRUE, <<<<"a", " ">>>>, <<>>),
     Rule(<<"a">>, TRUE, <<>>, <<<<>>>>)}

\* Second children of a Filter: an empty Ruleset, a Ruleset with an active
\* rule of invalid name.
SampleSiblings ==
    {RulesNode(<<>>), RulesNode(<<Rule(<<"a", ".">>, TRUE, <<>>, <<>>)>>)}

EmptyConfig ==
    [config |-> RulesNode(<<>>), depth |-> 0, siblings |-> 0,
     applied |-> FALSE, result |-> ValidationOk]

\* A rule is appended to the Ruleset the configuration starts as.
AddNestedRule(rule) ==
    /\ ~call.applied
    /\ call.config.type = "Rules"
    /\ Len(call.config.rules) < MaxNestedRules
    /\ call' = [call EXCEPT !.config.rules = Append(@, rule)]
    /\ UNCHANGED <<overflow_checks, bus, retryVars, matcherVars>>

\* The configuration becomes the only child, named key, of a new Filter.
WrapInFilter(name, key) ==
    /\ ~call.applied
    /\ call.depth < MaxDepth
    /\ call' = [call EXCEPT !.config = FilterNode(name, <<Node(key, call.config)>>),
                            !.depth = @ + 1]
    /\ UNCHANGED <<overflow_checks, bus, retryVars, matcherVars>>

\* The root Filter gets a second child, under a key that follows the first.
AddSibling(key, sibling) ==
    /\ ~call.applied
    /\ call.config.type = "Filter"
    /\ call.siblings = 0
    /\ Len(call.config.nodes) = 1
    /\ key # call.config.nodes[1].key
    /\ call' = [call EXCEPT !.config.nodes = Append(@, Node(key, sibling)),
                            !.siblings = @ + 1]
    /\ UNCHANGED <<overflow_checks, bus, retryVars, matcherVars>>

\* validate is called on the configuration tree.
ApplyValidateConfig ==
    /\ ~call.applied
    /\ call' = [call EXCEPT !.applied = TRUE,
                            !.result = validate(call.config)]
    /\ UNCHANGED <<overflow_checks, bus, retryVars, matcherVars>>

InitEventBus ==
    /\ overflow_checks = FALSE
    /\ call = NoCall
    /\ bus = EmptyBus
    /\ RetryIdle
    /\ MatcherIdle

NextEventBus == \E id \in ActionIds : ActixEventBus_publish_action(id)

SpecEventBus == InitEventBus /\ [][NextEventBus]_vars

InitForEach ==
    /\ overflow_checks = FALSE
    /\ call \in ForEachCalls
    /\ bus = EmptyBus
    /\ RetryIdle
    /\ MatcherIdle

NextForEach ==
    \/ \E item \in SampleItems : AddTargetItem(item)
    \/ \E entry \in SampleEntries : AddActionEntry(entry)
    \/ ForEachExecutor_execute

SpecForEach == InitForEach /\ [][NextForEach]_vars

InitContain ==
    /\ overflow_checks = FALSE
    /\ call \in ContainCalls
    /\ bus = EmptyBus
    /\ RetryIdle
    /\ MatcherIdle

NextContain ==
    \/ \E char \in Chars : AppendToText(char)
    \/ \E char \in Chars : AppendToSubstring(char)
    \/ ApplyContain

SpecContain == InitContain /\ [][NextContain]_vars

InitProcess ==
    /\ overflow_checks = FALSE
    /\ call = EmptyMatcher
    /\ bus = EmptyBus
    /\ RetryIdle
    /\ MatcherIdle

NextProcess ==
    \/ \E rule \in SampleMatcherRules : AddMatcherRule(rule)
    \/ \E filter \in {"none", "true", "false"} : WrapInMatcherFilter(filter)
    \/ \E rules \in SampleMatcherSiblings : AddMatcherSibling(rules)
    \/ ProcessEvent
    \/ DispatcherActor_handle

SpecProcess == InitProcess /\ [][NextProcess]_vars

InitArchive ==
    /\ overflow_checks = FALSE
    /\ call \in ArchiveCalls
    /\ bus = EmptyBus
    /\ RetryIdle
    /\ MatcherIdle

NextArchive ==
    \/ \E segment \in PathSegments : AppendSegment(segment)
    \/ ApplyArchive

SpecArchive == InitArchive /\ [][NextArchive]_vars

InitAuth ==
    /\ overflow_checks = FALSE
    /\ call \in AuthCalls
    /\ bus = EmptyBus
    /\ RetryIdle
    /\ MatcherIdle

NextAuth ==
    \/ \E role \in AuthRoles : AddRole(role)
    \/ BuildWithNew
    \/ \E auth_key \in {"auth_key_0", "auth_key_1"} : BuildFromHeader(auth_key)
    \/ CheckIsAuthenticated
    \/ \E permission \in Permissions : CheckHasPermission(permission)
    \/ \E permissions \in SUBSET Permissions : CheckHasAnyPermission(permissions)
    \/ \E owner \in AuthUsers : CheckIsOwner(owner)

SpecAuth == InitAuth /\ [][NextAuth]_vars

InitValidatorTree ==
    /\ overflow_checks = FALSE
    /\ call = EmptyConfig
    /\ bus = EmptyBus
    /\ RetryIdle
    /\ MatcherIdle

NextValidatorTree ==
    \/ \E rule \in SampleRules : AddNestedRule(rule)
    \/ \E filter \in SampleFilters : WrapInFilter(filter[1], filter[2])
    \/ \E key \in SampleNames, sibling \in SampleSiblings : AddSibling(key, sibling)
    \/ ApplyValidateConfig

SpecValidatorTree == InitValidatorTree /\ [][NextValidatorTree]_vars

InitValidator ==
    /\ overflow_checks = FALSE
    /\ call = EmptyRuleset
    /\ bus = EmptyBus
    /\ RetryIdle
    /\ MatcherIdle

NextValidator ==
    \/ \E rule \in Rules : AddRule(rule)
    \/ ApplyValidate

SpecValidator == InitValidator /\ [][NextValidator]_vars

\* RetryActor::start_new
InitRetry ==
    /\ overflow_checks \in BOOLEAN
    /\ call = NoCall
    /\ bus = EmptyBus
    /\ retry_strategy \in RetryStrategies
    /\ tasks = [t \in Tasks |-> IdleTask]
    /\ MatcherIdle

NextRetry ==
    \/ \E t \in Tasks, f0 \in InitialFailedAttempts : RetryActor_handle(t, f0)
    \/ \E t \in Tasks : TaskSend(t)
    \/ \E t \in Tasks, response \in ExecutorResponses : ExecutorAnswers(t, response)
    \/ \E t \in Tasks : MailboxError(t)
    \/ \E t \in Tasks : DelayElapsed(t)

SpecRetry == InitRetry /\ [][NextRetry]_vars

\* Several ActionMessages sent to one RetryActor, each with failed_attempts = 0.
ConcurrentTasks == 1..MaxConcurrentTasks

ConcurrentStrategies ==
    [retry_policy : {RetryPolicyMaxRetries(1)},
     backoff_policy : {BackoffPolicyNone, BackoffPolicyFixed(10)}]

InitRetryTasks ==
    /\ overflow_checks \in BOOLEAN
    /\ call = NoCall
    /\ bus = EmptyBus
    /\ retry_strategy \in ConcurrentStrategies
    /\ tasks = [t \in ConcurrentTasks |-> IdleTask]
    /\ MatcherIdle

NextRetryTasks ==
    \/ \E t \in ConcurrentTasks : RetryActor_handle(t, 0)
    \/ \E t \in ConcurrentTasks : TaskSend(t)
    \/ \E t \in ConcurrentTasks, response \in ExecutorResponses :
           ExecutorAnswers(t, response)
    \/ \E t \in ConcurrentTasks : MailboxError(t)
    \/ \E t \in ConcurrentTasks : DelayElapsed(t)

SpecRetryTasks == InitRetryTasks /\ [][NextRetryTasks]_vars

\* MatcherActor::start: the config is read and compiled; the actor starts
\* only if both succeed.
InitMatcher ==
    /\ overflow_checks = FALSE
    /\ call = NoCall
    /\ bus = EmptyBus
    /\ RetryIdle
    /\ store \in {c \in Configs : MatcherBuild(c).ok}
    /\ matcher_config = store
    /\ matcher = MatcherBuild(store).matcher
    /\ reconfigs = [r \in Reconfigs |-> IdleReconfig]
    /\ dispatcher_mailbox = <<>>
    /\ dispatcher_capacity = DispatcherCapacity
    /\ events = [e \in Events |-> NewEvent]

NextMatcher ==
    \/ \E e \in Events : EventMessage_handle(e)
    \/ DispatcherReceive
    \/ \E c \in Configs : StoreUpdate(c)
    \/ \E r \in Reconfigs : ReconfigureMessage_handle(r)
    \/ \E r \in Reconfigs, ok \in BOOLEAN : GetConfigResolves(r, ok)
    \/ \E r \in Reconfigs : ReconfigureCompletes(r)

SpecMatcher == InitMatcher /\ [][NextMatcher]_vars

\* A started MatcherActor that receives the three kinds of event messages; the
\* capacity of the dispatcher's mailbox is drawn.
InitMatcherEvents ==
    /\ overflow_checks = FALSE
    /\ call = NoCall
    /\ bus = EmptyBus
    /\ RetryIdle
    /\ store \in {c \in Configs : MatcherBuild(c).ok}
    /\ matcher_config = store
    /\ matcher = MatcherBuild(store).matcher
    /\ reconfigs = [r \in Reconfigs |-> IdleReconfig]
    /\ dispatcher_mailbox = <<>>
    /\ dispatcher_capacity \in 1..MaxDispatcherCapacity
    /\ events = [e \in Events |-> NewEvent]

NextMatcherEvents ==
    \/ \E e \in Events : EventMessage_handle(e)
    \/ \E e \in Events, filter \in NodeFilters, process_type \in ProcessTypes :
           EventMessageWithReply_handle(e, filter, process_type)
    \/ \E e \in Events, config \in Configs, process_type \in ProcessTypes :
           EventMessageAndConfigWithReply_handle(e, config, process_type)
    \/ DispatcherReceive

SpecMatcherEvents == InitMatcherEvents /\ [][NextMatcherEvents]_vars

(***************************************************************************)
(* Properties of the retry layer                                           *)
(***************************************************************************)
Received(t) == tasks[t].pc # "idle"
Ended(t) == tasks[t].pc \in {"done", "panicked"}
\* Every answer the task has had so far is an error of the executor.
OnlyExecutorErrors(t) == tasks[t].oks = 0 /\ tasks[t].mailbox_errors = 0

\* C1: with an executor that fails on every invocation and
\* MaxRetries{retries: N}, a message received with failed_attempts = 0 is
\* executed exactly N+1 times: never more, and N+1 times once the task has
\* ended.
C1_MaxRetriesInvocations ==
    \A t \in Tasks :
        (/\ retry_strategy.retry_policy.type = "MaxRetries"
         /\ Received(t)
         /\ tasks[t].f0 = 0
         /\ OnlyExecutorErrors(t))
        => /\ tasks[t].errs <= retry_strategy.retry_policy.retries + 1
           /\ Ended(t) => tasks[t].errs = retry_strategy.retry_policy.retries + 1

\* What C2 says RetryPolicy::should_retry returns.
C2_Expected(policy, failed_attempts) ==
    IF failed_attempts = 0
    THEN TRUE
    ELSE CASE policy.type = "None" -> FALSE
           [] policy.type = "Infinite" -> TRUE
           [] policy.type = "MaxRetries" -> failed_attempts <= policy.retries

\* C2: should_retry(failed_attempts) is true for failed_attempts = 0; for
\* failed_attempts >= 1 it is false under None, true under Infinite and, under
\* MaxRetries{retries: N}, true exactly when failed_attempts <= N.
C2_ShouldRetryTable ==
    call.applied
        => /\ ~call.panic
           /\ call.retry = C2_Expected(call.strategy.retry_policy, call.failed_attempts)

\* C3: after an error marked can_retry = false the retry loop ends, whatever
\* the RetryPolicy: the task of a message received with failed_attempts = 0
\* is over and the action is not sent to the executor again.
C3_NoAttemptAfterFatalError ==
    \A t \in Tasks :
        (tasks[t].f0 = 0 /\ tasks[t].got_fatal)
            => tasks[t].pc = "done" /\ ~tasks[t].sent_after_fatal

\* C8: once the executor has answered Ok, the task is over and the action is
\* not sent again (one Ok at most); an action whose first answer is Ok has
\* been sent exactly once.
C8_NoSendAfterOk ==
    \A t \in Tasks :
        tasks[t].oks > 0
            => /\ tasks[t].oks = 1
               /\ tasks[t].pc = "done"
               /\ ~tasks[t].sent_after_ok
               /\ tasks[t].sends = tasks[t].errs + 1
               /\ tasks[t].errs = 0 => tasks[t].sends = 1

\* An action that failed, was retried under Infinite and then succeeded.
C8_Witness ==
    \E t \in Tasks :
        /\ retry_strategy.retry_policy.type = "Infinite"
        /\ tasks[t].oks = 1
        /\ tasks[t].errs >= 1
        /\ tasks[t].pc = "done"

\* C9: under RetryPolicy::None a message received with failed_attempts = 0 is
\* sent to the executor exactly once, whatever the answer.
C9_NonePolicySendsOnce ==
    retry_strategy.retry_policy.type = "None"
        => \A t \in Tasks :
               (Received(t) /\ tasks[t].f0 = 0)
                   => \/ tasks[t].pc = "send" /\ tasks[t].sends = 0
                      \/ tasks[t].pc = "await" /\ tasks[t].sends = 1
                      \/ tasks[t].pc = "done" /\ tasks[t].sends = 1

\* Under None, a first attempt that failed, and the task over.
C9_Witness ==
    /\ retry_strategy.retry_policy.type = "None"
    /\ \E t \in Tasks :
           /\ tasks[t].f0 = 0
           /\ tasks[t].errs = 1
           /\ tasks[t].pc = "done"

\* C10: under RetryPolicy::Infinite an action received with failed_attempts = 0
\* is never dropped while the executor answers with errors only: its task
\* does not end.
C10_InfiniteNeverDrops ==
    retry_strategy.retry_policy.type = "Infinite"
        => \A t \in Tasks :
               (Received(t) /\ tasks[t].f0 = 0 /\ OnlyExecutorErrors(t)) => ~Ended(t)

(***************************************************************************)
(* Properties of the MatcherActor                                          *)
(***************************************************************************)
Handled(e) == events[e].status # "pending"

\* C4: when a reconfiguration ends, either the read and the build succeeded,
\* both fields are the newly built ones and the new config is the reply; or
\* the reply is the error and both fields have the values they had before the
\* ReconfigureMessage.
C4_ReconfigureAllOrNothing ==
    [][\A r \in Reconfigs :
          (reconfigs[r].pc = "read" /\ reconfigs'[r].pc = "done")
              => LET built == MatcherBuild(reconfigs[r].read)
                 IN  IF reconfigs[r].read_ok /\ built.ok
                     THEN /\ matcher' = built.matcher
                          /\ matcher_config' = reconfigs[r].read
                          /\ reconfigs'[r].reply_ok
                          /\ reconfigs'[r].reply = reconfigs[r].read
                     ELSE /\ ~reconfigs'[r].reply_ok
                          /\ matcher' = reconfigs[r].before.matcher
                          /\ matcher_config' = reconfigs[r].before.matcher_config]_vars

\* C5: at most one reconfiguration is in progress at any time.
C5_ReconfigurationsSerialized ==
    Cardinality({r \in Reconfigs : InProgress(r)}) <= 1

\* C6: the actor always holds a tree compiled from the config it holds, and
\* every event was processed with the tree the actor held at that moment,
\* compiled from the config it held at that moment.
C6_EventsSeeOneConsistentTree ==
    /\ MatcherBuild(matcher_config).ok
    /\ matcher = MatcherBuild(matcher_config).matcher
    /\ \A e \in Events :
           Handled(e)
               => /\ events[e].processed.event = e
                  /\ MatcherBuild(events[e].config_at).ok
                  /\ events[e].processed.matcher = MatcherBuild(events[e].config_at).matcher

\* An event handled while a reconfiguration was in progress, processed with
\* the tree that this reconfiguration has replaced since.
C6_Witness ==
    \E e \in Events :
        /\ Handled(e)
        /\ events[e].reconfiguring_at
        /\ events[e].processed.matcher # matcher
        /\ \A r \in Reconfigs : ~InProgress(r)

WaitComputed == call.applied /\ ~call.panic

\* C11: should_wait(0) is None for every backoff policy, and
\* BackoffPolicy::None yields None for every failed_attempts.
C11_NoWaitBeforeFirstAttempt ==
    WaitComputed =>
        /\ call.failed_attempts = 0 => call.wait = NoDuration
        /\ call.strategy.backoff_policy.type = "None" => call.wait = NoDuration

C11_Witness ==
    /\ WaitComputed
    /\ call.failed_attempts = 0
    /\ call.strategy.backoff_policy = BackoffPolicyFixed(10)
    /\ call.wait = NoDuration

\* C12: for Fixed{ms} and failed_attempts >= 1 the wait is exactly ms
\* milliseconds when ms > 0 and no wait when ms = 0, whatever failed_attempts.
C12_FixedWait ==
    (WaitComputed /\ call.strategy.backoff_policy.type = "Fixed"
                  /\ call.failed_attempts >= 1) =>
        LET ms == call.strategy.backoff_policy.ms
        IN  /\ ms > 0 => call.wait = [some |-> TRUE, ms |-> ms]
            /\ ms = 0 => call.wait = [some |-> FALSE, ms |-> 0]

C12_Witness ==
    /\ WaitComputed
    /\ call.strategy.backoff_policy = BackoffPolicyFixed(10)
    /\ call.failed_attempts = 3
    /\ call.wait = [some |-> TRUE, ms |-> 10]

\* C13: for Variable{ms: [t1..tk]} and failed_attempts = i >= 1 the selected
\* element is t_i when i <= k and t_k when i > k; the wait is that many
\* milliseconds when it is > 0, and no wait when it is 0 or the vector is empty.
C13_VariableWait ==
    (WaitComputed /\ call.strategy.backoff_policy.type = "Variable"
                  /\ call.failed_attempts >= 1) =>
        LET t == call.strategy.backoff_policy.vec
            k == Len(t)
            i == call.failed_attempts
        IN  IF k = 0
            THEN call.wait = [some |-> FALSE, ms |-> 0]
            ELSE LET selected == IF i <= k THEN t[i] ELSE t[k]
                 IN  /\ selected > 0 => call.wait = [some |-> TRUE, ms |-> selected]
                     /\ selected = 0 => call.wait = [some |-> FALSE, ms |-> 0]

C13_Witness ==
    /\ WaitComputed
    /\ call.strategy.backoff_policy = BackoffPolicyVariable(<<0, 30>>)
    /\ call.failed_attempts = U32_MAX
    /\ call.wait = [some |-> TRUE, ms |-> 30]

(***************************************************************************)
(* Claims about the backoff and the tasks of RetryActor (SpecRetry)        *)
(***************************************************************************)
\* The wait, in milliseconds, the backoff policy prescribes after the i-th
\* failure (0: no wait).
PrescribedWaitMs(backoff, i) ==
    CASE backoff.type = "None" -> 0
      [] backoff.type = "Fixed" -> backoff.ms
      [] backoff.type = "Variable" ->
           IF Len(backoff.vec) = 0 THEN 0
           ELSE IF i <= Len(backoff.vec) THEN backoff.vec[i]
                ELSE backoff.vec[Len(backoff.vec)]

\* Number of failures of the task after which another attempt was granted:
\* the attempts made after the first one, and the one about to be made.
AttemptsGranted(t) ==
    IF tasks[t].pc \in {"send", "delay"}
    THEN tasks[t].sends
    ELSE IF tasks[t].sends = 0 THEN 0 ELSE tasks[t].sends - 1

PositiveBackoff(backoff) == backoff.type = "Fixed" /\ backoff.ms > 0

\* C14: between the i-th failed attempt and the next attempt the retry task
\* waits exactly should_wait(i); a wait happens only when another attempt
\* follows, so an always-failing action under MaxRetries{retries: N} with a
\* positive backoff goes through exactly N waits.
C14_WaitsBetweenAttempts ==
    \A t \in Tasks :
        (Received(t) /\ tasks[t].f0 = 0) =>
            LET backoff == retry_strategy.backoff_policy
                granted == AttemptsGranted(t)
            IN  /\ tasks[t].waits =
                       SelectSeq([i \in 1..granted |-> PrescribedWaitMs(backoff, i)],
                                 LAMBDA ms : ms > 0)
                /\ tasks[t].pc = "delay" =>
                       tasks[t].delay = PrescribedWaitMs(backoff, granted)
                /\ (/\ retry_strategy.retry_policy.type = "MaxRetries"
                    /\ PositiveBackoff(backoff)
                    /\ OnlyExecutorErrors(t)
                    /\ Ended(t))
                   => Len(tasks[t].waits) = retry_strategy.retry_policy.retries

\* The task of an earlier message is suspended: awaiting the executor's answer
\* or waiting in backoff.
Suspended(u) == tasks[u].pc \in {"await", "delay"}

\* C15: each ActionMessage is retried in its own task: while an earlier action
\* is suspended, the RetryActor accepts the next ActionMessage, and the first
\* attempt of a received message can be sent to the executor at once.
C15_TasksAreIndependent ==
    \A t \in DOMAIN tasks :
        /\ (/\ tasks[t].pc = "idle"
            /\ \A u \in DOMAIN tasks : u < t => tasks[u].pc # "idle")
           => ENABLED RetryActor_handle(t, 0)
        /\ (tasks[t].pc = "send" /\ tasks[t].sends = 0) => ENABLED TaskSend(t)

C15_Witness ==
    \E u, t \in DOMAIN tasks :
        /\ u < t
        /\ tasks[u].pc = "delay"
        /\ tasks[t].pc = "await"
        /\ tasks[t].sends = 1

(***************************************************************************)
(* Claims about the event messages of MatcherActor (SpecMatcherEvents)     *)
(***************************************************************************)
WithReply(e) ==
    events[e].message \in {"EventMessageWithReply", "EventMessageAndConfigWithReply"}

InMailbox(e) ==
    \E i \in 1..Len(dispatcher_mailbox) : dispatcher_mailbox[i].event = e

\* C16: for the two messages with reply, SkipActions never sends anything to
\* the dispatcher, Full try_sends exactly one ProcessedEventMessage carrying
\* the ProcessedEvent that is returned, and in both cases the ProcessedEvent
\* of the event is returned.
C16_ProcessTypeDecidesTheSend ==
    \A e \in Events :
        (Handled(e) /\ WithReply(e) /\ events[e].reply = "Ok") =>
            /\ events[e].returned.event = e
            /\ events[e].process_type = "SkipActions"
                   => /\ events[e].try_sends = 0
                      /\ ~InMailbox(e)
                      /\ ~events[e].delivered
            /\ events[e].process_type = "Full"
                   => /\ events[e].try_sends = 1
                      /\ events[e].sent = events[e].returned
                      /\ \A i \in 1..Len(dispatcher_mailbox) :
                             dispatcher_mailbox[i].event = e
                                 => dispatcher_mailbox[i] = events[e].returned

\* Both messages with reply handled, one with each process type: the Full one
\* is in the dispatcher's mailbox, the SkipActions one is not.
C16_Witness ==
    \E d, e \in Events :
        /\ events[d].message = "EventMessageWithReply"
        /\ events[e].message = "EventMessageAndConfigWithReply"
        /\ events[d].reply = "Ok" /\ events[e].reply = "Ok"
        /\ events[d].process_type = "SkipActions" /\ ~InMailbox(d)
        /\ events[e].process_type = "Full" /\ InMailbox(e)

\* C17: the ProcessedEventMessages of EventMessages reach the dispatcher in
\* the order in which the events were received: in its mailbox an earlier
\* event is ahead of a later one, and a later event is not delivered while an
\* earlier one that was not dropped is still waiting.
C17_EventsKeepArrivalOrder ==
    /\ \A i, j \in 1..Len(dispatcher_mailbox) :
           i < j => dispatcher_mailbox[i].event < dispatcher_mailbox[j].event
    /\ \A a, b \in Events :
           (/\ a < b
            /\ events[a].message = "EventMessage"
            /\ events[b].message = "EventMessage"
            /\ events[a].status = "enqueued"
            /\ events[b].delivered)
           => events[a].delivered

\* Two EventMessages waiting in the dispatcher's mailbox.
C17_Witness ==
    /\ Len(dispatcher_mailbox) = 2
    /\ \A i \in 1..2 : events[dispatcher_mailbox[i].event].message = "EventMessage"
    /\ dispatcher_mailbox[1].event < dispatcher_mailbox[2].event

\* C18: an EventMessageWithReply whose config_filter selects no existing node
\* of the held config is answered with an error; the event is not processed
\* and nothing is sent to the dispatcher, even when process_type is Full.
C18_FilterWithoutNodeIsAnError ==
    \A e \in Events :
        (/\ Handled(e)
         /\ events[e].message = "EventMessageWithReply"
         /\ events[e].filter.node \notin ConfigNodes(events[e].config_at))
        => /\ events[e].reply = "Err"
           /\ events[e].returned = NoProcessedEvent
           /\ events[e].processed = NoProcessedEvent
           /\ events[e].try_sends = 0
           /\ ~InMailbox(e)
           /\ ~events[e].delivered

C18_Witness ==
    \E e \in Events :
        /\ events[e].message = "EventMessageWithReply"
        /\ events[e].process_type = "Full"
        /\ events[e].filter.node \notin ConfigNodes(events[e].config_at)
        /\ events[e].reply = "Err"
        /\ dispatcher_mailbox = <<>>

(***************************************************************************)
(* Claims about MatcherConfigValidator (SpecValidator)                     *)
(***************************************************************************)
\* Two rules at different positions with the same name.
SameName(rules, i, j) == i < j /\ rules[i].name = rules[j].name

\* Every name of the rule matches the id pattern.
RuleIsValid(rule) ==
    /\ MatchesIdPattern(rule.name)
    /\ \A i \in 1..Len(rule.with) : MatchesIdPattern(rule.with[i])
    /\ \A i \in 1..Len(rule.actions) : MatchesIdPattern(rule.actions[i])

\* The active rules up to position j pass validate_rule and no active rule
\* before j repeats the name of an earlier active rule.
FirstFailureIsAt(rules, j) ==
    /\ \A k \in 1..j :
           rules[k].active => RuleIsValid(rules[k])
    /\ \A k, l \in 1..(j - 1) :
           (rules[k].active /\ rules[l].active) => ~SameName(rules, k, l)

\* C19 as stated: validate accepts a Ruleset only if the names of all its
\* rules are pairwise distinct; when two rules share a name it returns
\* NotUniqueRuleNameError carrying that name.
C19_UniqueRuleNames ==
    call.applied =>
        LET rules == call.rules
            shared == {rules[j].name : j \in {j \in 1..Len(rules) :
                                       \E i \in 1..Len(rules) : SameName(rules, i, j)}}
        IN  /\ call.result.ok => shared = {}
            /\ shared # {} => /\ call.result.error = "NotUniqueRuleNameError"
                              /\ call.result.name \in shared

\* C19, amended: validate accepts a Ruleset only if the names of its active
\* rules are pairwise distinct and every active rule passes validate_rule;
\* when an active rule repeats the name of an earlier active rule, and no
\* active rule fails before, it returns NotUniqueRuleNameError carrying that
\* name; and that error is returned for a name two active rules share only.
C19_UniqueActiveRuleNames ==
    call.applied =>
        LET rules == call.rules
            n == Len(rules)
        IN  /\ call.result.ok =>
                   \A i, j \in 1..n :
                       (rules[i].active /\ rules[j].active) => ~SameName(rules, i, j)
            /\ \A i, j \in 1..n :
                   (/\ rules[i].active /\ rules[j].active
                    /\ SameName(rules, i, j)
                    /\ FirstFailureIsAt(rules, j))
                   => call.result = [ok |-> FALSE, error |-> "NotUniqueRuleNameError",
                                     name |-> rules[j].name]
            /\ call.result.error = "NotUniqueRuleNameError" =>
                   \E i, j \in 1..n :
                       /\ rules[i].active /\ rules[j].active
                       /\ SameName(rules, i, j)
                       /\ rules[j].name = call.result.name

\* Two active rules with one name, not next to each other, are refused.
C19_Witness ==
    /\ call.applied
    /\ Len(call.rules) = 3
    /\ call.rules[1].active /\ call.rules[3].active
    /\ call.rules[1].name = call.rules[3].name
    /\ call.rules[2].name # call.rules[1].name
    /\ call.result.error = "NotUniqueRuleNameError"
    /\ call.result.name = call.rules[3].name

\* C20: for the validator a rule with active = false is equivalent to an
\* absent rule: validate_rules returns the same result on the list and on
\* the list with all inactive rules removed.
C20_InactiveRuleIsAbsent ==
    call.applied => call.result = call.result_without_inactive

\* An inactive rule with an invalid name and a name shared with an active
\* rule: the Ruleset is accepted, as it is without them.
C20_Witness ==
    /\ call.applied
    /\ \E i, j, k \in 1..Len(call.rules) :
           /\ ~call.rules[i].active /\ call.rules[i].name = <<>>
           /\ ~call.rules[j].active /\ call.rules[k].active
           /\ call.rules[j].name = call.rules[k].name
    /\ call.result.ok
    /\ call.result_without_inactive.ok

\* The names found in a configuration tree: the rules of its Rulesets, its
\* Rulesets, the names of its Filters, the keys of its node maps.
RECURSIVE ConfigRulesets(_)
ConfigRulesets(config) ==
    IF config.type = "Rules"
    THEN {config.rules}
    ELSE UNION {ConfigRulesets(config.nodes[i].config) : i \in 1..Len(config.nodes)}

ConfigRules(config) ==
    UNION {{rules[i] : i \in 1..Len(rules)} : rules \in ConfigRulesets(config)}

RECURSIVE ConfigFilterNames(_)
ConfigFilterNames(config) ==
    IF config.type = "Rules"
    THEN {}
    ELSE {config.name} \cup
         UNION {ConfigFilterNames(config.nodes[i].config) : i \in 1..Len(config.nodes)}

RECURSIVE ConfigNodeNames(_)
ConfigNodeNames(config) ==
    IF config.type = "Rules"
    THEN {}
    ELSE {config.nodes[i].key : i \in 1..Len(config.nodes)} \cup
         UNION {ConfigNodeNames(config.nodes[i].config) : i \in 1..Len(config.nodes)}

\* The names of a rule: its own, its extracted variables', its actions' ids.
RuleNamesOf(rule) ==
    {rule.name} \cup {rule.with[i] : i \in 1..Len(rule.with)}
                \cup {rule.actions[i] : i \in 1..Len(rule.actions)}

\* A name that is not empty and made of letters, digits and underscores.
IsWord(name) ==
    Len(name) >= 1 /\ \A i \in 1..Len(name) : name[i] \in IdChars

FilterSucceedsIffPartsDo(config, result) ==
    result.ok <=>
        /\ validate_filter_name(config.name)
        /\ \A i \in 1..Len(config.nodes) :
               /\ validate_node_name(config.nodes[i].key)
               /\ validate(config.nodes[i].config).ok

\* validate succeeds on the tree exactly when every Filter name, every node
\* name and every Ruleset of the tree is valid, whatever their depth.
TreeSucceedsIffAllLevelsDo(config, result) ==
    result.ok <=>
        /\ \A name \in ConfigFilterNames(config) : validate_filter_name(name)
        /\ \A name \in ConfigNodeNames(config) : validate_node_name(name)
        /\ \A rules \in ConfigRulesets(config) : validate_rules(rules).ok

\* C22 as stated: validation is recursive over the config tree, and a single
\* invalid rule name in a nested Ruleset makes the validation of the root
\* fail.
C22_AnyInvalidNestedRuleNameFails ==
    (call.applied /\ call.config.type = "Filter") =>
        /\ FilterSucceedsIffPartsDo(call.config, call.result)
        /\ TreeSucceedsIffAllLevelsDo(call.config, call.result)
        /\ (\E rule \in ConfigRules(call.config) : ~validate_rule_name(rule.name))
               => ~call.result.ok

\* C22: validate on a Filter node succeeds if and only if the filter name is
\* valid, every child key is valid and validate succeeds on every child node,
\* at any depth; a single invalid name of an active rule in a nested Ruleset
\* makes the validation of the root fail.
C22_ValidationIsRecursive ==
    (call.applied /\ call.config.type = "Filter") =>
        /\ FilterSucceedsIffPartsDo(call.config, call.result)
        /\ TreeSucceedsIffAllLevelsDo(call.config, call.result)
        /\ (\E rule \in ConfigRules(call.config) :
                rule.active /\ ~validate_rule_name(rule.name))
               => ~call.result.ok

\* Two nested Filters with valid names and node names, refused for the name
\* of an active rule of the innermost Ruleset.
C22_Witness ==
    /\ call.applied
    /\ call.depth = 2
    /\ \A name \in ConfigFilterNames(call.config) : validate_filter_name(name)
    /\ \A name \in ConfigNodeNames(call.config) : validate_node_name(name)
    /\ \E rule \in ConfigRules(call.config) :
           /\ rule.active /\ ~validate_rule_name(rule.name)
           /\ call.result = NotValidIdOrNameError(rule.name)

\* C23: the validator aggregates errors: when a Ruleset contains several
\* violations, the error returned by validate accounts for all of them: each
\* invalid name of each active rule is reported by the returned error.
C23_ErrorsAreAggregated ==
    call.applied =>
        \A i \in 1..Len(call.rules) :
            call.rules[i].active =>
                \A name \in RuleNamesOf(call.rules[i]) :
                    ~MatchesIdPattern(name) =>
                        /\ call.result.error = "NotValidIdOrNameError"
                        /\ call.result.name = name

\* The actions of the sequence with the given ids, in order.
WithIds(actions, ids) == SelectSeq(actions, LAMBDA action : action.id \in ids)

\* C24: the event bus delivers an action only to the executor registered for
\* its action.id ("archive", "icinga2", "script") and to no other executor;
\* an action with any other id reaches no executor, is dropped after
\* logging, and does not prevent the routing of later actions.
C24_RoutedByActionId ==
    /\ \A executor \in Executors :
           bus.mailbox[executor] = WithIds(bus.published, {executor})
    /\ LET dropped == WithIds(bus.published, ActionIds \ Executors)
       IN  bus.errors = [i \in 1..Len(dropped) |-> dropped[i].id]

\* An action without executor was logged and dropped, and the actions
\* published after it reached the script and the archive executor.
C24_Witness ==
    /\ Len(bus.published) = 3
    /\ bus.published[1].id = "unknown"
    /\ bus.errors = <<"unknown">>
    /\ bus.mailbox["script"] = <<bus.published[2]>>
    /\ bus.mailbox["archive"] = <<bus.published[3]>>
    /\ bus.mailbox["icinga2"] = <<>>

\* An entry of `actions` that is an object with a string `id` and an object
\* `payload`.
WellFormed(entry) ==
    /\ entry.kind = "Object"
    /\ Get(entry.elems, "id").kind = "String"
    /\ Get(entry.elems, "payload").kind = "Object"

\* execute was called with a `target` array and an `actions` array.
ForEachCalled ==
    call.applied /\ call.target.kind = "Array" /\ call.actions.kind = "Array"

\* The value has a ${...} expression, or a ${ never closed, at some depth.
RECURSIVE HasPlaceholder(_)
HasPlaceholder(value) ==
    IF value.kind = "String"
    THEN \E i \in 1..Len(value.parts) : value.parts[i].part # "lit"
    ELSE IF value.kind = "Array"
    THEN \E i \in 1..Len(value.elems) : HasPlaceholder(value.elems[i])
    ELSE IF value.kind = "Object"
    THEN \E i \in 1..Len(value.elems) : HasPlaceholder(value.elems[i].value)
    ELSE FALSE

\* Every text of the value can be parsed: no ${ is left open, at any depth.
RECURSIVE Parsable(_)
Parsable(value) ==
    IF value.kind = "String"
    THEN \A i \in 1..Len(value.parts) : value.parts[i].part # "open"
    ELSE IF value.kind = "Array"
    THEN \A i \in 1..Len(value.elems) : Parsable(value.elems[i])
    ELSE IF value.kind = "Object"
    THEN \A i \in 1..Len(value.elems) : Parsable(value.elems[i].value)
    ELSE TRUE

\* resolved is original with each text, at any depth, replaced by what its
\* expressions give on the item; a text with an expression that finds
\* nothing in the item is left as it is.
RECURSIVE ResolvedAgainst(_, _, _)
ResolvedAgainst(original, resolved, item) ==
    IF original.kind = "String"
    THEN resolved = (IF parse_value(original.parts, item) = None
                     THEN original
                     ELSE parse_value(original.parts, item))
    ELSE IF original.kind = "Array"
    THEN /\ resolved.kind = "Array"
         /\ Len(resolved.elems) = Len(original.elems)
         /\ \A i \in 1..Len(original.elems) :
                ResolvedAgainst(original.elems[i], resolved.elems[i], item)
    ELSE IF original.kind = "Object"
    THEN /\ resolved.kind = "Object"
         /\ Len(resolved.elems) = Len(original.elems)
         /\ \A i \in 1..Len(original.elems) :
                /\ resolved.elems[i].key = original.elems[i].key
                /\ ResolvedAgainst(original.elems[i].value,
                                   resolved.elems[i].value, item)
    ELSE resolved = original

\* The published actions are those of the entries, action by action and
\* within each action in target order.
PublishedInOrder(entries, items) ==
    /\ Len(bus.published) = Len(entries) * Len(items)
    /\ \A a \in 1..Len(entries), t \in 1..Len(items) :
           LET action == bus.published[(a - 1) * Len(items) + t]
           IN  /\ action.id = Get(entries[a].elems, "id").parts
               /\ ResolvedAgainst(Get(entries[a].elems, "payload"),
                                  Object(action.payload), items[t])

\* C25 as stated: for a `target` of m items and n well-formed entries of
\* `actions`, execute publishes exactly n*m actions, action by action and
\* within each action in target order; each keeps the id of its entry and
\* has every ${item...} placeholder of its payload resolved; execute
\* returns Ok.
C25_PublishesEveryWellFormedEntry ==
    ForEachCalled =>
        /\ call.result = "Ok"
        /\ PublishedInOrder(SelectSeq(call.actions.elems, WellFormed),
                            call.target.elems)
        /\ \A k \in 1..Len(bus.published) :
               ~HasPlaceholder(Object(bus.published[k].payload))

\* C25: for a `target` of m items and n well-formed entries of `actions`
\* whose payload has no ${ left open, execute publishes exactly n*m
\* actions, action by action and within each action in target order; each
\* keeps the id of its entry and has every text of its payload, at any
\* depth of nested maps and arrays, whose ${item...} placeholders all find a
\* value in the item resolved against the corresponding item, the other
\* texts being left as written; execute returns Ok.
C25_PublishesEveryParsableEntry ==
    ForEachCalled =>
        /\ call.result = "Ok"
        /\ PublishedInOrder(
               SelectSeq(call.actions.elems,
                         LAMBDA entry : WellFormed(entry) /\
                                        Parsable(Get(entry.elems, "payload"))),
               call.target.elems)

\* Two actions were published for each of two items, first those of the
\* first action; a placeholder in a nested array was resolved.
C25_Witness ==
    /\ ForEachCalled
    /\ Len(call.target.elems) = 2
    /\ Len(bus.published) = 4
    /\ bus.published[1].id = bus.published[2].id
    /\ bus.published[2].id # bus.published[3].id
    /\ call.target.elems[1] # call.target.elems[2]
    /\ Get(bus.published[1].payload, "inner") =
           Array(<<String(<<Lit("first"), Lit("+"), Lit("second")>>),
                   String(<<Lit("const")>>)>>)

\* What execute publishes when the entries that are not well-formed are
\* taken out of `actions`.
PublishedWithoutMalformed ==
    execute(EmptyBus,
            ForEachPayload([call EXCEPT !.actions.elems =
                                SelectSeq(@, WellFormed)])).bus.published

\* C26 as stated: an entry of `actions` that is not an object with a string
\* `id` and an object `payload` is skipped: nothing is published for it,
\* every well-formed entry is still published once per target item, and
\* execute returns Ok.
C26_EveryWellFormedEntryIsPublished ==
    ForEachCalled =>
        /\ call.result = "Ok"
        /\ bus.published = PublishedWithoutMalformed
        /\ Len(bus.published) =
               Len(SelectSeq(call.actions.elems, WellFormed)) * Len(call.target.elems)

\* C26: an entry of `actions` that is not an object with a string `id` and
\* an object `payload` is skipped: nothing is published for it, what is
\* published is what is published without it, every well-formed entry whose
\* payload has no ${ left open is still published once per target item,
\* and execute returns Ok.
C26_MalformedEntriesAreSkipped ==
    ForEachCalled =>
        /\ call.result = "Ok"
        /\ bus.published = PublishedWithoutMalformed
        /\ Len(bus.published) =
               Len(SelectSeq(call.actions.elems,
                             LAMBDA entry : WellFormed(entry) /\
                                            Parsable(Get(entry.elems, "payload"))))
               * Len(call.target.elems)

\* An entry without payload comes before a well-formed one, which is
\* published once for each of the two items.
C26_Witness ==
    /\ ForEachCalled
    /\ Len(call.target.elems) = 2
    /\ Len(call.actions.elems) = 2
    /\ ~WellFormed(call.actions.elems[1])
    /\ Get(call.actions.elems[1].elems, "id").kind = "String"
    /\ WellFormed(call.actions.elems[2])
    /\ Len(bus.published) = 2
    /\ \A k \in 1..2 :
           bus.published[k].id = Get(call.actions.elems[2].elems, "id").parts

\* The text is some prefix, then the substring, then some suffix.
IsSubstringOf(substring, text) ==
    \E i, j \in 0..Len(text) :
        /\ i <= j
        /\ text = SubSeq(text, 1, i) \o substring \o SubSeq(text, j + 1, Len(text))

\* C27: the contain operator evaluates to true if and only if both its text
\* and its substring accessor resolve to strings and the text contains the
\* substring (a text contains itself); when either accessor resolves to
\* nothing or to a non-string, it evaluates to false and never raises an
\* error.
C27_ContainIsSubstringOfStrings ==
    call.applied =>
        /\ call.result \in BOOLEAN
        /\ call.result <=>
               /\ call.text.kind = "String"
               /\ call.substring.kind = "String"
               /\ IsSubstringOf(call.substring.parts, call.text.parts)
        /\ (call.text.kind = "String" /\ call.substring = call.text) => call.result
        /\ (call.text.kind # "String" \/ call.substring.kind # "String")
               => ~call.result

\* The substring is found in the middle of the text.
C27_Witness ==
    /\ call.applied
    /\ call.result
    /\ call.text = String(<<Lit("a"), Lit("b"), Lit("a")>>)
    /\ call.substring = String(<<Lit("b"), Lit("a")>>)

\* The nodes of the matcher tree, each with its record in the processed
\* tree and whether the event reaches it: no Filter above it is false.
RECURSIVE NodePairs(_, _, _)
NodePairs(node, processed, reached) ==
    {[node |-> node, processed |-> processed, reached |-> reached]} \cup
    UNION {NodePairs(node.nodes[k], processed.nodes[k],
                     reached /\ node.filter # "false") :
               k \in 1..Len(node.nodes)}

ProcessedPairs == NodePairs(call.tree, call.processed, TRUE)

\* The rules below a node, each with its record in the processed tree.
RulePairs(pair) ==
    UNION {{[rule |-> descendant.node.rules[k],
             processed |-> descendant.processed.rules[k]] :
                k \in 1..Len(descendant.node.rules)} :
           descendant \in NodePairs(pair.node, pair.processed, pair.reached)}

\* What a rule evaluates to on the event.
Evaluated(rule) ==
    IF ~rule.where THEN "NotMatched"
    ELSE IF ~rule.extractors THEN "PartiallyMatched"
    ELSE "Matched"

\* A rule before the i-th matches and has do_continue = false.
StoppedBefore(rules, i) ==
    \E j \in 1..(i - 1) : Evaluated(rules[j]) = "Matched" /\ ~rules[j].do_continue

\* C28: in a Ruleset, when a rule matches and its do_continue is false,
\* every later rule of that Ruleset gets status NotProcessed and produces no
\* action, while rules before it keep their evaluated status; sibling
\* Rulesets and Filters are evaluated as if that rule had do_continue =
\* true: the statuses of a Ruleset the event reaches depend on its own rules
\* only, and a Filter the event reaches matches unless its operator is false.
C28_DoContinueStopsItsRulesetOnly ==
    call.applied =>
        \A pair \in ProcessedPairs :
            pair.reached =>
                /\ pair.processed.kind = pair.node.kind
                /\ Len(pair.processed.rules) = Len(pair.node.rules)
                /\ Len(pair.processed.nodes) = Len(pair.node.nodes)
                /\ \A i \in 1..Len(pair.node.rules) :
                       IF StoppedBefore(pair.node.rules, i)
                       THEN pair.processed.rules[i] =
                                ProcessedRule("NotProcessed", <<>>)
                       ELSE pair.processed.rules[i].status =
                                Evaluated(pair.node.rules[i])
                /\ pair.node.kind = "Filter" =>
                       (pair.processed.status = "Matched"
                            <=> pair.node.filter # "false")

\* A rule that does not match, then one that matches with do_continue =
\* false, then a rule that would match: the third is NotProcessed, and the
\* rule of the sibling Ruleset is Matched.
C28_Witness ==
    /\ call.applied
    /\ call.depth = 1
    /\ Len(call.tree.nodes) = 2
    /\ Len(call.tree.nodes[1].rules) = 3
    /\ Evaluated(call.tree.nodes[1].rules[3]) = "Matched"
    /\ call.processed.nodes[1].rules[1].status = "NotMatched"
    /\ call.processed.nodes[1].rules[2].status = "Matched"
    /\ ~call.tree.nodes[1].rules[2].do_continue
    /\ call.processed.nodes[1].rules[3].status = "NotProcessed"
    /\ call.processed.nodes[2].rules[1].status = "Matched"

\* C29: when a Filter node's operator evaluates to false for an event, the
\* node is marked NotMatched and every rule in every descendant of that node
\* has status NotProcessed (never NotMatched or Matched), so no action of
\* that subtree is produced.
C29_FalseFilterStopsTheDescent ==
    call.applied =>
        \A pair \in ProcessedPairs :
            (pair.reached /\ pair.node.kind = "Filter" /\ pair.node.filter = "false")
            =>
                /\ pair.processed.status = "NotMatched"
                /\ \A rules \in RulePairs(pair) :
                       /\ rules.processed.status = "NotProcessed"
                       /\ rules.processed.actions = <<>>
                       /\ \A k \in 1..Len(rules.rule.actions) :
                              \A n \in 1..Len(bus.published) :
                                  bus.published[n] # rules.rule.actions[k]

\* A Filter that is false holds a Ruleset whose rule would match; the
\* sibling Ruleset of the Filter is processed, and after the dispatch only
\* the sibling's action was published.
C29_Witness ==
    /\ call.dispatched
    /\ call.depth = 2
    /\ call.tree.filter = "true"
    /\ Len(call.tree.nodes) = 2
    /\ call.tree.nodes[1].filter = "false"
    /\ Len(call.tree.nodes[1].nodes[1].rules) = 1
    /\ call.processed.nodes[1].status = "NotMatched"
    /\ Evaluated(call.tree.nodes[1].nodes[1].rules[1]) = "Matched"
    /\ call.processed.nodes[1].nodes[1].rules[1].status = "NotProcessed"
    /\ call.processed.nodes[2].rules[1].status = "Matched"
    /\ Len(bus.published) = 1

\* The payload of the first action comes before that of the second in
\* traversal order: rules are numbered in traversal order.
Precedes(first, second) ==
    \/ first.payload[1] < second.payload[1]
    \/ first.payload[1] = second.payload[1] /\ first.payload[2] < second.payload[2]

\* C30: for one ProcessedEvent the dispatcher publishes exactly the actions
\* of the rules with status Matched, each once, in tree-traversal order
\* (rules in configuration order, actions in the rule's order), and
\* publishes nothing for rules that are NotMatched, PartiallyMatched or
\* NotProcessed; each published action reaches the executor of its id once.
C30_MatchedActionsInTraversalOrder ==
    call.dispatched =>
        LET rules == RulePairs([node |-> call.tree, processed |-> call.processed,
                                reached |-> TRUE])
            Published == {bus.published[n] : n \in 1..Len(bus.published)}
        IN  /\ \A pair \in rules :
                   \A k \in 1..Len(pair.rule.actions) :
                       pair.rule.actions[k] \in Published
                           <=> pair.processed.status = "Matched"
            /\ \A action \in Published :
                   \E pair \in rules : \E k \in 1..Len(pair.rule.actions) :
                       action = pair.rule.actions[k]
            /\ \A m, n \in 1..Len(bus.published) :
                   m < n => Precedes(bus.published[m], bus.published[n])
            /\ \A executor \in Executors :
                   bus.mailbox[executor] = WithIds(bus.published, {executor})

\* Three rules of one Ruleset and one of a sibling: the two actions of the
\* second rule and the action of the sibling's rule are published in that
\* order, nothing for the first and the third rule.
C30_Witness ==
    /\ call.dispatched
    /\ call.depth = 1
    /\ Len(call.tree.nodes[1].rules) = 3
    /\ call.processed.nodes[1].rules[1].status = "PartiallyMatched"
    /\ call.processed.nodes[1].rules[2].status = "Matched"
    /\ call.processed.nodes[1].rules[3].status = "NotProcessed"
    /\ Len(call.tree.nodes) = 2
    /\ bus.published = call.tree.nodes[1].rules[2].actions
                           \o call.tree.nodes[2].rules[1].actions
    /\ Len(bus.published) = 3

\* The file a path names: each ".." leaves the directory reached so far, the
\* root being its own parent.
RECURSIVE Canonical(_, _)
Canonical(path, reached) ==
    IF path = <<>> THEN reached
    ELSE IF Head(path) = ".."
         THEN Canonical(Tail(path),
                        IF reached = <<>> THEN <<>>
                        ELSE SubSeq(reached, 1, Len(reached) - 1))
         ELSE Canonical(Tail(path), Append(reached, Head(path)))

IsUnder(path, directory) ==
    /\ Len(path) > Len(directory)
    /\ SubSeq(path, 1, Len(directory)) = directory

\* C31: ArchiveExecutor never writes outside its base_path: for every action
\* payload (including payload values used in path templates that contain
\* ".." or "/"), the file written by execute lies under base_path.
C31_WritesUnderBasePath ==
    (call.applied /\ call.written # NoFile) =>
        IsUnder(Canonical(call.written, <<>>), base_path)

\* C32: an AuthContextV2 built by new or from_header from a header with an
\* empty user is not valid, and a context that is not valid fails
\* is_authenticated, has_permission, has_any_permission and is_owner
\* whatever roles it carries; for a valid context has_any_permission
\* succeeds exactly when one of its roles is mapped to at least one of the
\* requested permissions.
C32_InvalidContextIsRefused ==
    /\ (Built /\ call.user = "") => ~call.context.valid
    /\ (Built /\ call.checked # "none" /\ ~call.context.valid)
           => call.result # "Ok"
    /\ (Built /\ call.checked = "has_any_permission" /\ call.context.valid)
           => (call.result = "Ok" <=>
                   \E role \in call.context.roles :
                       \E permission \in call.permissions :
                           role \in permission_roles_map[permission])

\* A context built from a header with an empty user and the role edit is
\* refused the permission ConfigEdit.
C32_Witness ==
    /\ call.built = "from_header"
    /\ call.user = ""
    /\ "edit" \in call.context.roles
    /\ call.checked = "has_any_permission"
    /\ "ConfigEdit" \in call.permissions
    /\ call.result = "UnauthenticatedError"

(***************************************************************************)
(* Claims about mailbox errors, the retry bound and the attempt counter    *)
(***************************************************************************)
\* C33: a MailboxError on the send from the RetryActor to the executor is a
\* failed attempt like an error of the executor: the action is dropped only
\* once the RetryPolicy is exhausted.  So a task whose sends all ended in a
\* MailboxError has ended only if the policy refuses a retry after that many
\* failures.
C33_MailboxErrorIsRetried ==
    \A t \in Tasks :
        (/\ tasks[t].pc = "done"
         /\ tasks[t].oks = 0
         /\ tasks[t].errs = 0
         /\ tasks[t].mailbox_errors > 0)
        => ~C2_Expected(retry_strategy.retry_policy,
                        tasks[t].f0 + tasks[t].mailbox_errors)

\* C34: for every u32 value of retries, u32::MAX included, and every
\* failed_attempts >= 1, MaxRetries{retries}.should_retry(failed_attempts)
\* returns failed_attempts <= retries: the bound `retries + 1` neither
\* overflows into a wrong answer nor aborts the call.
C34_MaxRetriesBoundDoesNotOverflow ==
    (/\ call.applied
     /\ call.strategy.retry_policy.type = "MaxRetries"
     /\ call.failed_attempts >= 1)
    => /\ ~call.panic
       /\ call.retry = (call.failed_attempts <= call.strategy.retry_policy.retries)

Max(a, b) == IF a >= b THEN a ELSE b

\* C35: the first invocation of the executor is made whatever the
\* failed_attempts the message arrives with and whatever the policy; the k-th
\* invocation carries failed_attempts = f0 + k - 1; and under
\* MaxRetries{retries: N} with an executor that always fails the action is
\* invoked max(1, N + 1 - f0) times in all.
C35_AttemptsCountFromInitialValue ==
    \A t \in Tasks :
        /\ (Received(t) /\ tasks[t].sends = 0) => tasks[t].pc = "send"
        /\ tasks[t].pc = "await"
               => tasks[t].failed_attempts = tasks[t].f0 + tasks[t].sends - 1
        /\ (/\ retry_strategy.retry_policy.type = "MaxRetries"
            /\ OnlyExecutorErrors(t)
            /\ Ended(t))
           => tasks[t].sends =
                  Max(1, retry_strategy.retry_policy.retries + 1 - tasks[t].f0)

(***************************************************************************)
(* SpecMatcherConfig: the MatcherActor and all its messages                *)
(***************************************************************************)
\* No GetCurrentConfigMessage handled yet.  `tree_at` is the matcher the
\* actor held when it replied.
NoConfigReply == [handled |-> FALSE, returned |-> NoConfig, tree_at |-> NoMatcher]

\* A Handler<GetCurrentConfigMessage> that reads the config from the store.
GetCurrentConfigMessage_handle_ReadsStore ==
    /\ call' = [handled |-> TRUE, returned |-> store, tree_at |-> matcher]
    /\ call' # call
    /\ UNCHANGED <<overflow_checks, bus, retryVars, matcherVars>>

\* Handler<GetCurrentConfigMessage>::handle: self.matcher_config.clone()
GetCurrentConfigMessage_handle ==
    /\ call' = [handled |-> TRUE, returned |-> matcher_config, tree_at |-> matcher]
    /\ call' # call
    /\ UNCHANGED <<overflow_checks, bus, retryVars, matcherVars>>

\* A config_filter that selects the root node, which every config has.
RootFilter == [node |-> 0]

\* The event messages the actor receives besides the reconfigurations.
ConfigEvents == 1..(MaxEvents - 1)

InitMatcherConfig ==
    /\ overflow_checks = FALSE
    /\ call = NoConfigReply
    /\ bus = EmptyBus
    /\ RetryIdle
    /\ store \in {c \in Configs : MatcherBuild(c).ok}
    /\ matcher_config = store
    /\ matcher = MatcherBuild(store).matcher
    /\ reconfigs = [r \in Reconfigs |-> IdleReconfig]
    /\ dispatcher_mailbox = <<>>
    /\ dispatcher_capacity = DispatcherCapacity
    /\ events = [e \in Events |-> NewEvent]

NextMatcherConfig ==
    \/ \E e \in ConfigEvents : EventMessage_handle(e)
    \/ GetCurrentConfigMessage_handle
    \/ \E c \in Configs : StoreUpdate(c)
    \/ \E r \in Reconfigs : ReconfigureMessage_handle(r)
    \/ \E r \in Reconfigs, ok \in BOOLEAN : GetConfigResolves(r, ok)
    \/ \E r \in Reconfigs : ReconfigureCompletes(r)

SpecMatcherConfig == InitMatcherConfig /\ [][NextMatcherConfig]_vars

\* The MatcherActor receiving every kind of message it handles, the
\* ReconfigureMessages one after the other.
FrameReconfigs == 1..(MaxReconfigs - 1)

NextMatcherFrame ==
    \/ \E e \in ConfigEvents : EventMessage_handle(e)
    \/ \E e \in ConfigEvents :
           EventMessageWithReply_handle(e, RootFilter, "SkipActions")
    \/ \E e \in ConfigEvents, config \in Configs :
           EventMessageAndConfigWithReply_handle(e, config, "SkipActions")
    \/ GetCurrentConfigMessage_handle
    \/ \E c \in Configs : StoreUpdate(c)
    \/ \E r \in FrameReconfigs : ReconfigureMessage_handle(r)
    \/ \E r \in FrameReconfigs, ok \in BOOLEAN : GetConfigResolves(r, ok)
    \/ \E r \in FrameReconfigs : ReconfigureCompletes(r)

SpecMatcherFrame == InitMatcherConfig /\ [][NextMatcherFrame]_vars

\* C36: in every reachable state the MatcherActor holds the matcher compiled
\* from the matcher_config it holds, so that after any sequence of successful
\* and failed reconfigurations and of event messages GetCurrentConfigMessage
\* returns the config from which the tree used for EventMessage was built.
C36_CurrentConfigIsTheCompiledOne ==
    /\ MatcherBuild(matcher_config).ok
    /\ MatcherBuild(matcher_config).matcher = matcher
    /\ call.handled =>
           /\ MatcherBuild(call.returned).ok
           /\ MatcherBuild(call.returned).matcher = call.tree_at
    /\ \A e \in Events :
           (call.handled /\ events[e].message = "EventMessage"
                /\ events[e].processed.matcher = call.tree_at)
               => events[e].processed.matcher.compiled_from = call.returned

\* After a failed and a successful reconfiguration and an event of each kind,
\* GetCurrentConfigMessage has returned a config other than the store's
\* current one: the one of the tree in use.
C36_Witness ==
    /\ call.handled
    /\ call.returned # store
    /\ call.returned = matcher_config
    /\ \E r \in Reconfigs : reconfigs[r].pc = "done" /\ ~reconfigs[r].reply_ok
    /\ \E r \in Reconfigs : reconfigs[r].pc = "done" /\ reconfigs[r].reply_ok
    /\ \E e \in ConfigEvents : events[e].message = "EventMessage"
                                  /\ events[e].processed.matcher = call.tree_at

\* The ReconfigureMessage r completes successfully in this step.
ReconfigureSucceeds(r) ==
    /\ reconfigs[r].pc = "read"
    /\ reconfigs'[r].pc = "done"
    /\ reconfigs'[r].reply_ok

\* The event message e is handled in this step.
EventHandled(e) == events[e].status = "pending" /\ events'[e].status # "pending"

\* C37: only a successful ReconfigureMessage changes the matcher and the
\* matcher_config the MatcherActor holds; handling an EventMessage, an
\* EventMessageWithReply, an EventMessageAndConfigWithReply (whose config is
\* compiled for that one event only) or a GetCurrentConfigMessage leaves both
\* unchanged.
C37_OnlyReconfigureChangesTheFields ==
    [][/\ (matcher' # matcher \/ matcher_config' # matcher_config)
              => \E r \in Reconfigs : ReconfigureSucceeds(r)
       /\ ((\E e \in Events : EventHandled(e)) \/ call' # call)
              => (matcher' = matcher /\ matcher_config' = matcher_config)]_vars

\* An EventMessageAndConfigWithReply was processed with a matcher compiled
\* from the config of the message, which is not the one the actor holds; a
\* reconfiguration has succeeded and installed another config than the
\* first; a GetCurrentConfigMessage was answered.
C37_Witness ==
    /\ \E e \in Events :
           /\ events[e].message = "EventMessageAndConfigWithReply"
           /\ events[e].reply = "Ok"
           /\ events[e].processed.matcher # matcher
    /\ \E r \in Reconfigs :
           /\ reconfigs[r].pc = "done"
           /\ reconfigs[r].reply_ok
           /\ reconfigs[r].reply = matcher_config
    /\ call.handled
    /\ call.returned # matcher_config

(***************************************************************************)
(* Claims about the arguments and the failures of ForEachExecutor          *)
(***************************************************************************)
NothingPublished == bus.published = <<>>

\* C38: execute returns MissingArgumentError and publishes nothing when
\* `target` is missing or not an array, and when `target` is an array but
\* `actions` is missing or not an array; with an empty `target` array or no
\* well-formed entry in `actions` it returns Ok and publishes nothing.
C38_ArgumentErrorsPublishNothing ==
    call.applied =>
        /\ call.target.kind # "Array"
               => (call.result = "MissingArgumentError" /\ NothingPublished)
        /\ (call.target.kind = "Array" /\ call.actions.kind # "Array")
               => (call.result = "MissingArgumentError" /\ NothingPublished)
        /\ (/\ ForEachCalled
            /\ \/ call.target.elems = <<>>
               \/ \A i \in 1..Len(call.actions.elems) :
                      ~WellFormed(call.actions.elems[i]))
               => (call.result = "Ok" /\ NothingPublished)

\* A `target` of two items with an `actions` that is not an array is refused
\* and nothing is published.
C38_Witness ==
    /\ call.applied
    /\ call.target.kind = "Array"
    /\ Len(call.target.elems) = 2
    /\ call.actions = Number
    /\ call.result = "MissingArgumentError"
    /\ NothingPublished

\* The well-formed entries of `actions`, and whether the action of the a-th
\* of them can be resolved: no text of its payload has a ${ left open.
WellFormedEntries == SelectSeq(call.actions.elems, WellFormed)

CanBeResolved(a) == Parsable(Get(WellFormedEntries[a].elems, "payload"))

\* The (action, item) pairs in the order of the loop, and the number of the
\* pairs up to (a, v) that can be resolved.
Pairs == (1..Len(WellFormedEntries)) \X (1..Len(call.target.elems))

UpTo(a, v) ==
    {p \in Pairs : CanBeResolved(p[1]) /\ (p[1] < a \/ (p[1] = a /\ p[2] <= v))}

\* The value has, at some depth, a text with an expression that finds no
\* value in the item.
RECURSIVE FindsNoValue(_, _)
FindsNoValue(value, item) ==
    IF value.kind = "String"
    THEN build_parser(value.parts) /\ parse_value(value.parts, item) = None
    ELSE IF value.kind = "Array"
    THEN \E i \in 1..Len(value.elems) : FindsNoValue(value.elems[i], item)
    ELSE IF value.kind = "Object"
    THEN \E i \in 1..Len(value.elems) : FindsNoValue(value.elems[i].value, item)
    ELSE FALSE

\* C39: a failure to resolve one (action, item) pair does not stop the
\* others: that pair is not published, every other pair is still published
\* in order, and execute returns Ok; a placeholder that resolves to no value
\* is not a failure: the action is published with the template text left in
\* place.
C39_FailedPairIsSkippedAlone ==
    ForEachCalled =>
        /\ call.result = "Ok"
        /\ Len(bus.published) =
               Cardinality({p \in Pairs : CanBeResolved(p[1])})
        /\ \A p \in Pairs :
               CanBeResolved(p[1]) =>
                   LET action == bus.published[Cardinality(UpTo(p[1], p[2]))]
                       entry == WellFormedEntries[p[1]]
                       item == call.target.elems[p[2]]
                   IN  /\ action.id = Get(entry.elems, "id").parts
                       /\ ResolvedAgainst(Get(entry.elems, "payload"),
                                          Object(action.payload), item)
                       /\ FindsNoValue(Get(entry.elems, "payload"), item)
                              => HasPlaceholder(Object(action.payload))

\* The first action has a ${ left open and is published for no item; the
\* second is published for both items: with its template left in place for
\* the item that has no element 0, resolved for the item that has one.
C39_Witness ==
    /\ ForEachCalled
    /\ Len(call.target.elems) = 2
    /\ Len(WellFormedEntries) = 2
    /\ ~CanBeResolved(1)
    /\ CanBeResolved(2)
    /\ Len(bus.published) = 2
    /\ Get(bus.published[1].payload, "inner") =
           Object(<<MapEntry("value", String(<<Expr(<<0>>)>>))>>)
    /\ Get(bus.published[2].payload, "inner") =
           Object(<<MapEntry("value", String(<<Lit("first")>>))>>)

====
